---------------------------- MODULE Spec2Model ----------------------------
(***************************************************************************)
(* Model of the extraction-and-classification pipeline of the analyzer:    *)
(*   src/src/fetchPost.js    scrapeTweets and the functions it drives      *)
(*   src/src/ai-analyzer.js  AIAnalyzer (remote-first, local-fallback)     *)
(*                                                                         *)
(* JavaScript strings are TLA+ strings; TLC evaluates Len, SubSeq and \o   *)
(* on them, so String.prototype.includes, toLowerCase, trim and the two    *)
(* regular expressions of the analyzer are computed character by           *)
(* character.  The Bengali literals of ai-analyzer.js are written as ASCII *)
(* tags (one tag per literal); the line of each literal is given where the *)
(* tag is used.                                                            *)
(***************************************************************************)
EXTENDS Integers, Sequences, FiniteSets, TLC

\* ------------------------------------------------------------------------
\* JavaScript string primitives
\* ------------------------------------------------------------------------

UpperChars == "ABCDEFGHIJKLMNOPQRSTUVWXYZ"

LowerChars == "abcdefghijklmnopqrstuvwxyz"

DigitChars == "0123456789"

\* the characters String.prototype.trim removes that occur in the model's texts
WhiteChars == " \n\t"

CharAt(s, i) == SubSeq(s, i, i)

\* String.prototype.includes
Includes(s, k) ==
    \E i \in 1..(Len(s) - Len(k) + 1) : SubSeq(s, i, i + Len(k) - 1) = k

IndexIn(alphabet, c) == CHOOSE i \in 1..Len(alphabet) : CharAt(alphabet, i) = c

LowerChar(c) ==
    IF Includes(UpperChars, c) THEN CharAt(LowerChars, IndexIn(UpperChars, c)) ELSE c

UpperChar(c) ==
    IF Includes(LowerChars, c) THEN CharAt(UpperChars, IndexIn(LowerChars, c)) ELSE c

RECURSIVE LowerFrom(_, _)
LowerFrom(s, i) ==
    IF i > Len(s) THEN "" ELSE LowerChar(CharAt(s, i)) \o LowerFrom(s, i + 1)

\* String.prototype.toLowerCase
ToLowerCase(s) == LowerFrom(s, 1)

IsWhite(c) == Includes(WhiteChars, c)

RECURSIVE TrimStart(_)
TrimStart(s) ==
    IF Len(s) > 0 /\ IsWhite(CharAt(s, 1)) THEN TrimStart(SubSeq(s, 2, Len(s))) ELSE s

RECURSIVE TrimEnd(_)
TrimEnd(s) ==
    IF Len(s) > 0 /\ IsWhite(CharAt(s, Len(s)))
    THEN TrimEnd(SubSeq(s, 1, Len(s) - 1))
    ELSE s

\* String.prototype.trim
Trim(s) == TrimEnd(TrimStart(s))

\* the class \w of a JavaScript regular expression: [A-Za-z0-9_]
IsWordChar(c) ==
    Includes(UpperChars, c) \/ Includes(LowerChars, c) \/ Includes(DigitChars, c) \/ c = "_"

\* s.replace(from, to) with a string pattern: the first occurrence only
ReplaceFirst(s, from, to) ==
    IF Includes(s, from)
    THEN LET i == CHOOSE j \in 1..(Len(s) - Len(from) + 1) :
                     /\ SubSeq(s, j, j + Len(from) - 1) = from
                     /\ \A h \in 1..(j - 1) : SubSeq(s, h, h + Len(from) - 1) # from
         IN SubSeq(s, 1, i - 1) \o to \o SubSeq(s, i + Len(from), Len(s))
    ELSE s

\* s.replace(/\b\w/g, l => l.toUpperCase()): every word character that
\* starts a word is upper-cased
RECURSIVE CapitalizeWords(_, _)
CapitalizeWords(s, i) ==
    IF i > Len(s) THEN ""
    ELSE LET c == CharAt(s, i)
             atBoundary == IsWordChar(c) /\ (i = 1 \/ ~IsWordChar(CharAt(s, i - 1)))
         IN (IF atBoundary THEN UpperChar(c) ELSE c) \o CapitalizeWords(s, i + 1)

\* Array.prototype.filter is SelectSeq; Array.prototype.includes on a sequence
Contains(seq, x) == \E i \in 1..Len(seq) : seq[i] = x

\* Array.prototype.slice(0, n)
Slice0(seq, n) == SubSeq(seq, 1, IF Len(seq) < n THEN Len(seq) ELSE n)

Min(a, b) == IF a < b THEN a ELSE b


\* ------------------------------------------------------------------------
\* AIAnalyzer.localAirdropAnalysis and its helpers (src/src/ai-analyzer.js)
\* ------------------------------------------------------------------------

\* Object.entries(categoryKeywords): the twelve sets in insertion order
categoryKeywords ==
    << [name |-> "layer1_layer2",
        keywords |-> <<"layer 1", "layer 2", "l1", "l2", "blockchain", "mainnet",
                       "scaling", "rollup", "sidechain">>],
       [name |-> "defi",
        keywords |-> <<"defi", "dex", "swap", "liquidity", "yield", "farming",
                       "staking", "lending", "protocol">>],
       [name |-> "nft",
        keywords |-> <<"nft", "mint", "collection", "pfp", "avatar", "opensea",
                       "metadata", "rare">>],
       [name |-> "ai_ml",
        keywords |-> <<"ai", "artificial intelligence", "machine learning", "ml",
                       "neural", "gpt", "llm", "agent">>],
       [name |-> "gaming",
        keywords |-> <<"gaming", "play-to-earn", "p2e", "metaverse", "gamefi",
                       "rpg", "mmorpg">>],
       [name |-> "testnet",
        keywords |-> <<"testnet", "alpha", "beta", "sandbox", "devnet", "preview",
                       "test network">>],
       [name |-> "quest",
        keywords |-> <<"quest", "task", "mission", "challenge", "bounty", "galxe",
                       "zealy", "crew3">>],
       [name |-> "fundraising",
        keywords |-> <<"funding", "raise", "seed", "series a", "ico", "ido", "ieo",
                       "presale", "round">>],
       [name |-> "points",
        keywords |-> <<"points", "farming", "rewards", "earn", "accumulate",
                       "multiplier", "boost">>],
       [name |-> "crosschain",
        keywords |-> <<"bridge", "cross-chain", "multichain", "interoperability",
                       "wrapped", "portal">>],
       [name |-> "privacy",
        keywords |-> <<"privacy", "anonymous", "zero-knowledge", "zk", "private",
                       "encryption">>],
       [name |-> "infrastructure",
        keywords |-> <<"oracle", "rpc", "api", "indexer", "infrastructure", "node",
                       "validator">>] >>

airdropKeywords ==
    <<"airdrop", "drop", "token distribution", "free tokens", "claim",
      "whitelist", "early access", "early adopter", "genesis user",
      "retroactive", "snapshot", "eligibility", "allocation">>

actionKeywords ==
    <<"join", "participate", "follow", "retweet", "like", "share",
      "connect wallet", "mint", "stake", "provide liquidity", "swap",
      "bridge", "deposit", "claim", "register", "sign up", "invite",
      "complete tasks", "verify", "kyc", "discord", "telegram">>

\* keywords.filter(keyword => text.includes(keyword))
KeywordMatches(text, keywords) == SelectSeq(keywords, LAMBDA k : Includes(text, k))

\* faulty variant of AirdropScore: a direct indicator weighs 2
AirdropScoreDouble(airdropMatches) == Len(airdropMatches) * 2

\* potential += airdropMatches.length * 3
AirdropScore(airdropMatches) == Len(airdropMatches) * 3

\* potential += matches.length * 2
CategoryScore(matches) == Len(matches) * 2

\* potential += actionMatches.length
ActionScore(actionMatches) == Len(actionMatches)

\* category.replace('_', ' ').replace(/\b\w/g, l => l.toUpperCase())
CategoryTitle(category) == CapitalizeWords(ReplaceFirst(category, "_", " "), 1)

\* faulty variant of OpportunityTypeOf: the final else is left out
OpportunityTypeOfNoDefault(category) ==
    IF category = "testnet" THEN "TestNet Rewards"
    ELSE IF category = "nft" THEN "NFT Mint"
    ELSE IF category = "defi" THEN "DeFi Farming"
    ELSE IF category = "quest" THEN "Quest Program"
    ELSE IF category = "points" THEN "Points Farming"
    ELSE IF category = "fundraising" THEN "Token Launch"
    ELSE ""

\* the if / else-if chain on the category key
OpportunityTypeOf(category) ==
    IF category = "testnet" THEN "TestNet Rewards"
    ELSE IF category = "nft" THEN "NFT Mint"
    ELSE IF category = "defi" THEN "DeFi Farming"
    ELSE IF category = "quest" THEN "Quest Program"
    ELSE IF category = "points" THEN "Points Farming"
    ELSE IF category = "fundraising" THEN "Token Launch"
    ELSE "Early Access"

\* the for-of loop over the category sets, from entry i on; acc holds the
\* loop's three locals
RECURSIVE CategoryLoop(_, _, _)
CategoryLoop(text, i, acc) ==
    IF i > Len(categoryKeywords) THEN acc
    ELSE LET entry == categoryKeywords[i]
             matches == KeywordMatches(text, entry.keywords)
         IN IF Len(matches) > 0
            THEN CategoryLoop(text, i + 1,
                     [potential |-> acc.potential + CategoryScore(matches),
                      detectedCategory |-> CategoryTitle(entry.name),
                      opportunityType |-> OpportunityTypeOf(entry.name)])
            ELSE CategoryLoop(text, i + 1, acc)

\* faulty variant of CapPotential: the cap is left out
CapPotentialNoClamp(potential) == potential

\* potential = Math.min(10, potential)
CapPotential(potential) == Min(10, potential)

\* faulty variant of HasOpportunity: a strict comparison
HasOpportunityStrict(potential) == potential > 4

\* const hasOpportunity = potential >= 4
HasOpportunity(potential) == potential >= 4

\* text.match(/<sigil>[A-Za-z0-9_]+/g) || []: the matches from position i on
RECURSIVE MatchSigil(_, _, _)
MatchSigil(text, sigil, i) ==
    IF i > Len(text) THEN << >>
    ELSE IF CharAt(text, i) = sigil /\ i < Len(text) /\ IsWordChar(CharAt(text, i + 1))
         THEN LET last == CHOOSE j \in (i + 1)..Len(text) :
                              /\ \A h \in (i + 1)..j : IsWordChar(CharAt(text, h))
                              /\ (j = Len(text) \/ ~IsWordChar(CharAt(text, j + 1)))
              IN <<SubSeq(text, i, last)>> \o MatchSigil(text, sigil, last + 1)
         ELSE MatchSigil(text, sigil, i + 1)

MapSubstring1(items) == [n \in 1..Len(items) |-> SubSeq(items[n], 2, Len(items[n]))]

extractProjectNames(text) ==
    LET mentions == MatchSigil(text, "@", 1)
        hashtags == MatchSigil(text, "#", 1)
    IN Slice0(SelectSeq(MapSubstring1(mentions \o hashtags), LAMBDA item : Len(item) > 2), 5)

\* faulty variant of assessRiskLevel: the low-risk test comes first
assessRiskLevelLowFirst(text, airdropMatches, projects) ==
    IF Len(projects) > 0
         /\ (Includes(text, "testnet") \/ Includes(text, "beta")
               \/ Includes(text, "official") \/ Len(airdropMatches) > 0)
    THEN "low"
    ELSE IF Includes(text, "guaranteed") \/ Includes(text, "100%")
              \/ Includes(text, "quick rich") \/ Includes(text, "pump")
         THEN "high"
         ELSE "medium"

assessRiskLevel(text, airdropMatches, projects) ==
    IF Includes(text, "guaranteed") \/ Includes(text, "100%")
         \/ Includes(text, "quick rich") \/ Includes(text, "pump")
    THEN "high"
    ELSE IF Len(projects) > 0
              /\ (Includes(text, "testnet") \/ Includes(text, "beta")
                    \/ Includes(text, "official") \/ Len(airdropMatches) > 0)
         THEN "low"
         ELSE "medium"

\* faulty variant of estimateTimeline: "now" is not looked for
estimateTimelineWithoutNow(text, airdropMatches, actionMatches) ==
    IF Includes(text, "today") \/ Includes(text, "live")
    THEN "timeline:now"
    ELSE IF Includes(text, "week") \/ Includes(text, "7 days")
    THEN "timeline:1 week"
    ELSE IF Includes(text, "month") \/ Includes(text, "30 days")
    THEN "timeline:1 month"
    ELSE IF Includes(text, "quarter") \/ Includes(text, "q1") \/ Includes(text, "q2")
    THEN "timeline:3 months"
    ELSE IF Len(airdropMatches) > 0 \/ Len(actionMatches) > 2
    THEN "timeline:1 month"
    ELSE "timeline:uncertain"

\* returned literals, lines 301-315: now / one week / one month / three
\* months / uncertain
estimateTimeline(text, airdropMatches, actionMatches) ==
    IF Includes(text, "now") \/ Includes(text, "today") \/ Includes(text, "live")
    THEN "timeline:now"
    ELSE IF Includes(text, "week") \/ Includes(text, "7 days")
    THEN "timeline:1 week"
    ELSE IF Includes(text, "month") \/ Includes(text, "30 days")
    THEN "timeline:1 month"
    ELSE IF Includes(text, "quarter") \/ Includes(text, "q1") \/ Includes(text, "q2")
    THEN "timeline:3 months"
    ELSE IF Len(airdropMatches) > 0 \/ Len(actionMatches) > 2
    THEN "timeline:1 month"
    ELSE "timeline:uncertain"

\* returned literals, lines 320-328
generateAdditionalContext(category, riskLevel, potential) ==
    IF riskLevel = "high" THEN "context:high risk warning"
    ELSE IF potential >= 8 THEN "context:high potential"
    ELSE IF Includes(category, "TestNet") \/ Includes(category, "Quest")
    THEN "context:active participation"
    ELSE "context:follow project"

PushIf(cond, seq, item) == IF cond THEN Append(seq, item) ELSE seq

\* pushed literals, lines 336-369
createEnhancedKeyPoints(airdropMatches, actionMatches, category) ==
    LET p1 == PushIf(Includes(category, "Layer"), << >>, "point:new network launch")
        p2 == PushIf(Includes(category, "DeFi"), p1, "point:defi liquidity")
        p3 == PushIf(Includes(category, "NFT"), p2, "point:nft minting")
        p4 == PushIf(Includes(category, "AI"), p3, "point:ai early access")
        p5 == PushIf(Includes(category, "Gaming"), p4, "point:gaming play-to-earn")
        p6 == PushIf(Contains(airdropMatches, "testnet"), p5, "point:testnet activity")
        p7 == PushIf(Contains(airdropMatches, "airdrop"), p6, "point:airdrop mentioned")
        p8 == PushIf(Contains(airdropMatches, "early access"), p7, "point:early access")
        p9 == PushIf(Contains(actionMatches, "farming") \/ Contains(actionMatches, "stake"),
                     p8, "point:farming or staking")
        p10 == PushIf(Contains(actionMatches, "quest") \/ Contains(actionMatches, "task"),
                      p9, "point:quest or task")
    IN IF Len(p10) = 0 THEN <<"point:general crypto information">> ELSE p10

\* faulty variant of createDetailedActionSteps: one default step in place of
\* three, and no closing step after it
createDetailedActionStepsOneDefault(hasOpportunity, actionMatches, category) ==
    IF ~hasOpportunity THEN <<"step:none needed">>
    ELSE
    LET s1 == PushIf(Includes(category, "TestNet"), << >>, "step:use testnet")
        s2 == PushIf(Includes(category, "NFT"), s1, "step:register whitelist")
        s3 == PushIf(Includes(category, "DeFi"), s2, "step:provide liquidity")
        s4 == PushIf(Includes(category, "Quest"), s3, "step:complete quests")
        s5 == PushIf(Contains(actionMatches, "follow"), s4, "step:follow social channels")
        s6 == PushIf(Contains(actionMatches, "connect wallet"), s5, "step:connect wallet")
        s7 == PushIf(Contains(actionMatches, "discord") \/ Contains(actionMatches, "telegram"),
                     s6, "step:join community")
        s8 == PushIf(Contains(actionMatches, "invite") \/ Contains(actionMatches, "referral"),
                     s7, "step:referral program")
    IN IF Len(s8) = 0
       THEN <<"step:check official channels">>
       ELSE Append(s8, "step:verify roadmap and tokenomics")

\* pushed literals, lines 377-418
createDetailedActionSteps(hasOpportunity, actionMatches, category) ==
    IF ~hasOpportunity THEN <<"step:none needed">>
    ELSE
    LET s1 == PushIf(Includes(category, "TestNet"), << >>, "step:use testnet")
        s2 == PushIf(Includes(category, "NFT"), s1, "step:register whitelist")
        s3 == PushIf(Includes(category, "DeFi"), s2, "step:provide liquidity")
        s4 == PushIf(Includes(category, "Quest"), s3, "step:complete quests")
        s5 == PushIf(Contains(actionMatches, "follow"), s4, "step:follow social channels")
        s6 == PushIf(Contains(actionMatches, "connect wallet"), s5, "step:connect wallet")
        s7 == PushIf(Contains(actionMatches, "discord") \/ Contains(actionMatches, "telegram"),
                     s6, "step:join community")
        s8 == PushIf(Contains(actionMatches, "invite") \/ Contains(actionMatches, "referral"),
                     s7, "step:referral program")
        s9 == IF Len(s8) = 0
              THEN <<"step:check official channels", "step:stay active",
                     "step:follow updates">>
              ELSE s8
    IN Append(s9, "step:verify roadmap and tokenomics")

\* returned literals, lines 425-437
createEmptyAnalysis ==
    [content_summary_bangla |-> "summary:no content",
     project_category |-> "Unknown",
     airdrop_potential |-> 0,
     has_airdrop_opportunity |-> FALSE,
     summary_bangla |-> "summary:no content",
     key_points_bangla |-> <<"point:content empty">>,
     action_steps_bangla |-> <<"step:provide valid url">>,
     opportunity_type |-> "None",
     projects_mentioned |-> << >>,
     risk_level |-> "none",
     confidence_level |-> "none",
     estimated_timeline |-> "timeline:uncertain",
     additional_context |-> "context:none"]

\* template literals, lines 241-249
localAirdropAnalysis(fullText) ==
    LET text == ToLowerCase(fullText)
        airdropMatches == KeywordMatches(text, airdropKeywords)
        afterCategories ==
            CategoryLoop(text, 1, [potential |-> AirdropScore(airdropMatches),
                                   detectedCategory |-> "General",
                                   opportunityType |-> ""])
        actionMatches == KeywordMatches(text, actionKeywords)
        potential == CapPotential(afterCategories.potential + ActionScore(actionMatches))
        detectedCategory == afterCategories.detectedCategory
        opportunityType == afterCategories.opportunityType
        projects == extractProjectNames(fullText)
        riskLevel == assessRiskLevel(text, airdropMatches, projects)
        hasOpportunity == HasOpportunity(potential)
    IN [content_summary_bangla |->
            IF hasOpportunity
            THEN "summary:project of " \o detectedCategory
            ELSE "summary:general information",
        project_category |-> detectedCategory,
        airdrop_potential |-> potential,
        has_airdrop_opportunity |-> hasOpportunity,
        summary_bangla |->
            IF hasOpportunity
            THEN (IF potential >= 7 THEN "chance:high" ELSE "chance:medium")
                 \o (IF Len(airdropMatches) > 0 THEN " direct mention" ELSE " early participation")
            ELSE "chance:low",
        key_points_bangla |->
            createEnhancedKeyPoints(airdropMatches, actionMatches, detectedCategory),
        action_steps_bangla |->
            createDetailedActionSteps(hasOpportunity, actionMatches, detectedCategory),
        opportunity_type |-> IF opportunityType = "" THEN "General Information" ELSE opportunityType,
        projects_mentioned |-> projects,
        risk_level |-> riskLevel,
        confidence_level |->
            IF potential >= 7 THEN "high" ELSE IF potential >= 4 THEN "medium" ELSE "low",
        estimated_timeline |-> estimateTimeline(text, airdropMatches, actionMatches),
        additional_context |-> generateAdditionalContext(detectedCategory, riskLevel, potential)]


\* ------------------------------------------------------------------------
\* JavaScript values that are not analysis objects, completions
\* ------------------------------------------------------------------------

JSUndefined == [t |-> "undefined"]

JSNull == [t |-> "null"]

JSString(str) == [t |-> "string", v |-> str]

JSNumber(n) == [t |-> "number", v |-> n]

JSArray(items) == [t |-> "array", v |-> items]

\* a completion of a call: a returned value or a thrown error; localRuns
\* counts the evaluations of localAirdropAnalysis the call made
Return(value, runs) == [threw |-> FALSE, value |-> value, localRuns |-> runs]

Throw(message, runs) == [threw |-> TRUE, error |-> message, localRuns |-> runs]

\* ------------------------------------------------------------------------
\* AIAnalyzer.analyzeForAirdrops / aiAirdropAnalysis (src/src/ai-analyzer.js)
\* ------------------------------------------------------------------------

\* the key set of the schema that both createEmptyAnalysis and
\* localAirdropAnalysis return and the prompt asks the service for
CanonicalKeys == DOMAIN createEmptyAnalysis

\* a response text the service can send: JSON text is modelled by the value
\* it denotes, any other text by its raw characters
JSONText(value) == [json |-> TRUE, value |-> value]

NotJSON(raw) == [json |-> FALSE, raw |-> raw]

\* JSON.parse: the denoted value, or a SyntaxError
JSONParse(content) ==
    IF content.json THEN Return(content.value, 0) ELSE Throw("SyntaxError", 0)

\* an object with the canonical keys as the service fills them in
RemoteAnalysis(score, has) ==
    [content_summary_bangla |-> "remote:content summary",
     project_category |-> "TestNet",
     airdrop_potential |-> score,
     has_airdrop_opportunity |-> has,
     summary_bangla |-> "remote:summary",
     key_points_bangla |-> <<"remote:point">>,
     action_steps_bangla |-> <<"remote:step">>,
     opportunity_type |-> "TestNet Rewards",
     projects_mentioned |-> <<"ProjectName1">>,
     risk_level |-> "low",
     confidence_level |-> "high",
     estimated_timeline |-> "timeline:1 week",
     additional_context |-> "remote:context"]

RemoteScores == {-1, 8, 15}

\* the ways the axios.post promise of aiAirdropAnalysis settles
Rejections ==
    { [kind |-> "reject", error |-> e] :
        e \in {"Network Error", "Request failed with status code 500",
               "timeout of 30000ms exceeded"} }

MalformedBodies ==
    { [kind |-> "body", shape |-> sh] :
        sh \in {"no choices", "empty choices", "no message", "content undefined",
                "content null"} }

NonObjectContents ==
    { NotJSON("Sure! Here is the analysis you asked for"),
      JSONText(JSNumber(42)), JSONText(JSArray(<<1, 2>>)),
      JSONText(JSString("ok")), JSONText(JSNull) }

WrongKeyContents ==
    { JSONText([project_category |-> "DeFi", airdrop_potential |-> 8]),
      JSONText([k \in CanonicalKeys \cup {"note"} |->
                  IF k = "note" THEN "extra" ELSE RemoteAnalysis(8, TRUE)[k]]) }

CanonicalContents ==
    { JSONText(RemoteAnalysis(sc, sc >= 4)) : sc \in RemoteScores }

Contents == NonObjectContents \cup WrongKeyContents \cup CanonicalContents

Responses ==
    Rejections \cup MalformedBodies
      \cup { [kind |-> "body", shape |-> "content", content |-> c] : c \in Contents }

NoResponse == [kind |-> "none"]

\* the response carries a single JSON object with exactly the canonical keys
IsCanonicalResponse(resp) ==
    /\ resp.kind = "body"
    /\ resp.shape = "content"
    /\ resp.content.json
    /\ DOMAIN resp.content.value = CanonicalKeys

\* faulty variant of AiAfterResponse: the catch around JSON.parse runs the
\* local strategy and then throws the parse error on
AiAfterResponseRethrow(resp, text) ==
    IF resp.kind = "reject" THEN Throw(resp.error, 0)
    ELSE IF resp.shape # "content" THEN Throw("TypeError", 0)
    ELSE LET parsed == JSONParse(resp.content)
         IN IF parsed.threw
            THEN Throw(parsed.error, 1)
            ELSE parsed

\* aiAirdropAnalysis from the settling of axios.post on: a rejection is
\* thrown on, response.data.choices[0].message.content.trim() throws a
\* TypeError on a body without that string, then JSON.parse in its try/catch
AiAfterResponse(resp, text) ==
    IF resp.kind = "reject" THEN Throw(resp.error, 0)
    ELSE IF resp.shape # "content" THEN Throw("TypeError", 0)
    ELSE LET parsed == JSONParse(resp.content)
         IN IF parsed.threw
            THEN Return(localAirdropAnalysis(text), 1)
            ELSE parsed

\* faulty variant of AnalyzeCatch: no catch, the error reaches the caller
AnalyzeCatchRethrow(completion, text) == completion

\* the try/catch of analyzeForAirdrops around the chosen strategy
AnalyzeCatch(completion, text) ==
    IF completion.threw
    THEN Return(localAirdropAnalysis(text), completion.localRuns + 1)
    ELSE completion

\* faulty variant of IsBlank: the argument is not trimmed
IsBlankNoTrim(arg) == arg = JSUndefined \/ arg = JSNull \/ arg.v = ""

\* the guard of analyzeForAirdrops: !fullText || fullText.trim().length === 0
IsBlank(arg) == arg = JSUndefined \/ arg = JSNull \/ arg.v = "" \/ Len(Trim(arg.v)) = 0


\* ------------------------------------------------------------------------
\* Bounds and inputs
\* ------------------------------------------------------------------------

\* longest URL list handed to scrapeTweets
MaxUrls == 2

\* most words in a corpus handed to analyzeForAirdrops directly
MaxWords == 2

Words == {"now", "stake", "series", "raindrop", "AIRDROP", "Join testnet", "claim"}

RECURSIVE WordTexts(_)
WordTexts(n) ==
    IF n <= 1 THEN Words ELSE { t \o " " \o w : t \in WordTexts(n - 1), w \in Words }

Texts == UNION { WordTexts(n) : n \in 1..MaxWords }

BlankTexts == {"", "   ", " \n\t"}

\* corpora with handles, tags, risk phrases and punctuation, analyzed as
\* they are
Corpora ==
    {"Join our testnet airdrop now, connect wallet and claim",
     "#defi @Alice",
     "@Alice official",
     "@Alice guaranteed testnet",
     "@ab testnet",
     "gm",
     "@Alice gm",
     "@Alice airdrop now",
     "whitelist snapshot"}

DirectArgs == {JSUndefined, JSNull} \cup { JSString(t) : t \in Texts \cup BlankTexts \cup Corpora }

\* the n-th URL of a list: the URLs of one list are distinct
Url(n) == "https://x.com/user/status/" \o CharAt(DigitChars, n + 1)

UrlList(n) == [k \in 1..n |-> Url(k)]

\* the urls argument of scrapeTweets: an array of at most MaxUrls URLs, or
\* something that is not an array
UrlArgs ==
    { [isArray |-> FALSE, items |-> << >>] }
      \cup { [isArray |-> TRUE, items |-> UrlList(n)] : n \in 0..MaxUrls }

\* what the two page.evaluate calls of scrapeSingleTweet read from the page
UserResults == { [displayName |-> "Alice", username |-> "alice"] }

\* the textContent of the [data-testid="tweetText"] element, undefined when
\* the tweet or that element is missing from the page
RawTweetTexts ==
    {JSUndefined, JSString("  \n "), JSString(" Join testnet\n"), JSString("AIRDROP")}

\* `?.textContent?.trim() || ""`
TextOrEmpty(raw) == IF raw = JSUndefined THEN "" ELSE Trim(raw.v)

\* `?.getAttribute("datetime") || ""` of the tweet that has that text
TimestampOrEmpty(raw) == IF raw = JSUndefined THEN "" ELSE "2025-08-23T10:00:00.000Z"

TweetResults ==
    { [text |-> TextOrEmpty(raw), timestamp |-> TimestampOrEmpty(raw)] : raw \in RawTweetTexts }

LaunchErrors ==
    {"browserType.launch: Executable doesn't exist at /app/.cache/ms-playwright/chromium",
     "spawn /usr/bin/chrome ENOENT",
     "browserType.launch: Target page, context or browser has been closed"}

SetupErrors == {"Protocol error (Target.createTarget): Failed to open a new tab"}

NavigationErrors ==
    {"page.goto: net::ERR_NAME_NOT_RESOLVED", "page.goto: Timeout 15000ms exceeded."}

WaitError == "page.waitForSelector: Timeout 15000ms exceeded."

EvaluateError == "page.evaluate: Execution context was destroyed"

CloseError == "browser.close: Protocol error (Browser.close): Internal server error"

NavigationTimeoutMessage == "Navigation timeout - Twitter may be blocking automated access"

\* process.env as the AIAnalyzer constructor reads it
Environments ==
    { [NODE_ENV |-> "production"],
      [OPENROUTER_API_KEY |-> "sk-or-v1-0000", OPENROUTER_MODEL |-> "openai/gpt-4o-mini"] }

\* `process.env.X || fallback`: the fallback also for an empty value
EnvOr(env, name, fallback) ==
    IF name \in DOMAIN env /\ env[name] # "" THEN env[name] ELSE fallback

\* the model and baseURL the constructor of AIAnalyzer assigns
ConstructConfig(env) ==
    [model |-> EnvOr(env, "OPENROUTER_MODEL", "meta-llama/llama-3.1-8b-instruct:free"),
     baseURL |-> EnvOr(env, "OPENROUTER_BASE_URL", "https://openrouter.ai/api/v1")]

\* most scrapeTweets calls in flight at once
MaxCalls == 2

Calls == 1..MaxCalls

\* the collaborator has not called scrapeTweets, or has with these urls
NotCalled == [called |-> FALSE, urls |-> << >>]

CalledWith(list) == [called |-> TRUE, urls |-> list]

\* the locals of a scrapeTweets call that has not started
IdleCall ==
    [pc |-> "idle", browser |-> 0, posts |-> << >>, request |-> [none |-> TRUE],
     resp |-> NoResponse, result |-> [none |-> TRUE]]

\* the services a launcher runs: telegram-bot/bot.js and web-ui/frontend.js
Services == {"bot", "web"}

\* a createUser call slot that is not in use
IdleUserCall == [pc |-> "idle", from |-> [none |-> TRUE], lastID |-> 0, ret |-> [none |-> TRUE]]

\* most requests to protected routes in flight at once
MaxRequests == 2

Requests == 1..MaxRequests

\* a request slot that is not in use
IdleRequest == [pc |-> "idle", route |-> "", arg |-> JSUndefined, status |-> ""]

\* ------------------------------------------------------------------------
\* State
\* ------------------------------------------------------------------------

VARIABLES
    apiKey,       \* this.apiKey is set (OPENROUTER_API_KEY at construction)
    apc,          \* analyzeForAirdrops: "idle", "awaitRemote", "returned", "threw"
    caller,       \* who called analyzeForAirdrops: "none", "direct", "batch"
    fullText,     \* the argument of analyzeForAirdrops
    response,     \* how axios.post settled in this call, NoResponse before
    result,       \* the value analyzeForAirdrops returned
    remoteCalls,  \* axios.post calls made by this analyzeForAirdrops call
    localCalls,   \* localAirdropAnalysis calls made by this call
    prev,         \* the corpus and result of the direct call before this one
    pc,           \* scrapeTweets: where the call stands
    urls,         \* the urls argument of scrapeTweets
    browser,      \* the local `browser` of scrapeTweets: "null" or "instance"
    proc,         \* the browser process: "none", "running", "closed"
    i,            \* the index of scrapeMultipleTweets' loop (1-based)
    stage,        \* scrapeSingleTweet: "nav", "wait", "user", "tweet", or "none"
    user,         \* the local `user` of scrapeSingleTweet
    pendingNav,   \* indexes whose page.goto has not settled
    allPosts,     \* the allPosts array of scrapeMultipleTweets
    failed,       \* history: the indexes whose scrapeSingleTweet call threw
    started,      \* history: the page operations started, as [url, op] records
    timedOut,     \* history: the indexes whose timer settled before page.goto
    completion,   \* what scrapeTweets' try/catch produced, held during finally
    ret,          \* what the scrapeTweets promise settled with
    inbound,      \* the /check message or POST /api/analyze-twitter body in hand
    passed,       \* the urls argument a collaborator gave scrapeTweets
    reply,        \* what the collaborator answered
    config,       \* the model and baseURL fields of the shared aiAnalyzer
    calls,        \* concurrent scrapeTweets calls: the locals of each call
    browsers,     \* the browsers launched by concurrent calls, in launch order
    pageOps,      \* history: [call, browser, op] for every use of a browser
    launcher,     \* which launcher script runs: "none" before it starts
    children,     \* the child processes the launcher spawned, in spawn order
    refs,         \* the launcher's references to its children, by service
    timers,       \* the services whose restart timer is pending
    isShuttingDown, \* AllInOneManager.isShuttingDown
    lpc,          \* the launcher process: "idle", "up", "signalled", "exited"
    atSignal,     \* history: the children that ran when the signal arrived
    users,        \* the rows of the users table, in insertion order
    inits,        \* Database.initialize of each service's process: where it stands
    userCalls,    \* the bot's createUser calls in flight: the locals of each call
    server,       \* the web server's admin password, None before it is constructed
    session,      \* req.session of the one browser session
    requests,     \* the requests to protected routes in flight
    analyses,     \* the ids of the rows of url_analyses
    authLog       \* history: the last of correct POST /login and POST /logout

analyzerVars == <<apiKey, apc, caller, fullText, response, result, remoteCalls, localCalls, prev>>

batchVars ==
    <<pc, urls, browser, proc, i, stage, user, pendingNav, allPosts, failed, started, timedOut,
      completion, ret>>

vars == <<apiKey, apc, caller, fullText, response, result, remoteCalls, localCalls, prev,
          pc, urls, browser, proc, i, stage, user, pendingNav, allPosts, failed, started, timedOut,
          completion, ret, inbound, passed, reply, config, calls, browsers, pageOps,
          launcher, children, refs, timers, isShuttingDown, lpc, atSignal,
          users, inits, userCalls, server, session, requests, analyses, authLog>>

frontVars == <<inbound, passed, reply>>

concurrentVars == <<config, calls, browsers, pageOps>>

launcherVars == <<launcher, children, refs, timers, isShuttingDown, lpc, atSignal>>

storeVars == <<users, inits, userCalls>>

webVars == <<server, session, requests, analyses, authLog>>

\* the state outside one scrapeTweets call and its analyzer call
serviceVars == <<frontVars, concurrentVars, launcherVars, storeVars, webVars>>

None == [none |-> TRUE]

Init ==
    /\ \E env \in Environments :
          /\ apiKey = ("OPENROUTER_API_KEY" \in DOMAIN env)
          /\ config = ConstructConfig(env)
    /\ apc = "idle"
    /\ caller = "none"
    /\ fullText = JSUndefined
    /\ response = NoResponse
    /\ result = None
    /\ remoteCalls = 0
    /\ localCalls = 0
    /\ prev = None
    /\ pc = "idle"
    /\ urls = [isArray |-> TRUE, items |-> << >>]
    /\ browser = "null"
    /\ proc = "none"
    /\ i = 0
    /\ stage = "none"
    /\ user = None
    /\ pendingNav = {}
    /\ allPosts = << >>
    /\ failed = {}
    /\ started = {}
    /\ timedOut = {}
    /\ completion = None
    /\ ret = None
    /\ inbound = None
    /\ passed = NotCalled
    /\ reply = None
    /\ calls = [c \in Calls |-> IdleCall]
    /\ browsers = << >>
    /\ pageOps = {}
    /\ launcher = "none"
    /\ children = << >>
    /\ refs = [s \in Services |-> 0]
    /\ timers = {}
    /\ isShuttingDown = FALSE
    /\ lpc = "idle"
    /\ atSignal = {}
    /\ users = << >>
    /\ inits = [sv \in Services |-> [pc |-> "idle", error |-> ""]]
    /\ userCalls = [c \in Calls |-> IdleUserCall]
    /\ server = None
    /\ session = [authenticated |-> FALSE]
    /\ requests = [r \in Requests |-> IdleRequest]
    /\ analyses = {}
    /\ authLog = "none"


\* ------------------------------------------------------------------------
\* analyzeForAirdrops as steps: up to the await of axios.post, and from the
\* settling of that promise on
\* ------------------------------------------------------------------------

\* which branch analyzeForAirdrops takes for an argument: the empty
\* constant, the remote strategy or the local strategy
Dispatch(arg, key) ==
    IF IsBlank(arg) THEN "empty" ELSE IF key THEN "remote" ELSE "local"

\* analyzeForAirdrops(arg) up to its first suspension
AnalyzeEnter(arg, who) ==
    LET branch == Dispatch(arg, apiKey)
        local == AnalyzeCatch(Return(localAirdropAnalysis(arg.v), 1), arg.v)
    IN /\ caller' = who
       /\ fullText' = arg
       /\ response' = NoResponse
       /\ remoteCalls' = IF branch = "remote" THEN 1 ELSE 0
       /\ localCalls' = IF branch = "local" THEN local.localRuns ELSE 0
       /\ result' = IF branch = "empty" THEN createEmptyAnalysis
                    ELSE IF branch = "local" THEN local.value
                    ELSE None
       /\ apc' = IF branch = "remote" THEN "awaitRemote" ELSE "returned"
       /\ UNCHANGED apiKey

\* axios.post settles and aiAirdropAnalysis, then analyzeForAirdrops, finish
RemoteSettles(resp) ==
    /\ apc = "awaitRemote"
    /\ LET done == AnalyzeCatch(AiAfterResponse(resp, fullText.v), fullText.v)
       IN /\ response' = resp
          /\ localCalls' = done.localRuns
          /\ apc' = IF done.threw THEN "threw" ELSE "returned"
          /\ result' = IF done.threw THEN [thrown |-> done.error] ELSE done.value
    /\ UNCHANGED <<apiKey, caller, fullText, remoteCalls, prev>>
    /\ UNCHANGED batchVars
    /\ UNCHANGED serviceVars

\* a caller other than scrapeTweets calls analyzeForAirdrops
DirectCall(arg) ==
    /\ pc = "idle"
    /\ apc = "idle"
    /\ AnalyzeEnter(arg, "direct")
    /\ prev' = None
    /\ UNCHANGED batchVars
    /\ UNCHANGED serviceVars

\* the caller, given a result of the local strategy, has the corpus of that
\* call analyzed once more with " airdrop" appended
DirectCallAgain ==
    /\ caller = "direct"
    /\ apc = "returned"
    /\ localCalls >= 1
    /\ prev = None
    /\ ~IsBlank(fullText)
    /\ prev' = [text |-> fullText.v, result |-> result, localCalls |-> localCalls]
    /\ AnalyzeEnter(JSString(fullText.v \o " airdrop"), "direct")
    /\ UNCHANGED batchVars
    /\ UNCHANGED serviceVars

\* ------------------------------------------------------------------------
\* scrapeTweets and the functions it drives (src/src/fetchPost.js)
\* ------------------------------------------------------------------------

\* the message initializeBrowser throws for an error with message msg: the
\* catch around the launch, then the catch around the whole function
ErrorOfInitialize(msg) ==
    LET inner == IF Includes(msg, "Executable doesn't exist")
                 THEN "Browser not available: Playwright browsers are not installed."
                 ELSE msg
    IN IF Includes(inner, "Executable doesn't exist") \/ Includes(inner, "ENOENT")
       THEN "Browser not available: Playwright browsers not properly installed."
       ELSE inner

\* the object of scrapeTweets' catch block
FailureResult(message) ==
    [posts |-> << >>, mergedText |-> "", success |-> FALSE, error |-> message]

\* faulty variant of SuccessResult: totalPosts counts the posts that carry
\* text
SuccessResultCountingTexts(text, posts, analysis) ==
    [fullText |-> text, success |-> TRUE,
     totalPosts |-> Len(SelectSeq(posts, LAMBDA post :
                        "tweet" \in DOMAIN post /\ post.tweet.text # "")),
     analysis |-> analysis]

\* the object of scrapeTweets' try block
SuccessResult(text, posts, analysis) ==
    [fullText |-> text, success |-> TRUE, totalPosts |-> Len(posts), analysis |-> analysis]

\* the post objects of scrapeSingleTweet and of scrapeMultipleTweets' catch
\* (scrapedAt, the clock reading, is left out)
Post(url, u, tweet) == [url |-> url, user |-> u, tweet |-> tweet]

\* faulty variant of ErrorPost: the message is read from a property the
\* error does not have and is dropped
ErrorPostNoMessage(url, message) == [url |-> url]

ErrorPost(url, message) == [url |-> url, error |-> message]

RECURSIVE Join(_, _)
Join(strs, sep) ==
    IF Len(strs) = 0 THEN ""
    ELSE IF Len(strs) = 1 THEN strs[1]
    ELSE strs[1] \o sep \o Join(Tail(strs), sep)

\* faulty variant of getMergedText: the texts are joined by a line break
\* instead of a blank line
getMergedTextSingleNewline(posts) ==
    LET kept == SelectSeq(posts, LAMBDA post : "tweet" \in DOMAIN post /\ post.tweet.text # "")
    IN Join([n \in 1..Len(kept) |-> kept[n].tweet.text], "\n")

getMergedText(posts) ==
    LET kept == SelectSeq(posts, LAMBDA post : "tweet" \in DOMAIN post /\ post.tweet.text # "")
    IN Join([n \in 1..Len(kept) |-> kept[n].tweet.text], "\n\n")

\* closeBrowser(b) calls b.close() when b is not null
ClosesBrowser(b) == b # "null"

\* the guard of scrapeMultipleTweets
UrlsRejected(us) == ~us.isArray \/ Len(us.items) = 0

ScrapeTweets(us) ==
    /\ pc = "idle"
    /\ caller = "none"
    /\ urls' = us
    /\ pc' = "launch"
    /\ UNCHANGED <<browser, proc, i, stage, user, pendingNav, allPosts, failed, started, timedOut,
                   completion, ret>>
    /\ UNCHANGED analyzerVars
    /\ UNCHANGED serviceVars

\* initializeBrowser threw: scrapeTweets' catch builds the failure object and
\* its finally runs closeBrowser(browser)
InitializeFailed(message) ==
    /\ completion' = FailureResult(ErrorOfInitialize(message))
    /\ IF ClosesBrowser(browser)
       THEN pc' = "closing" /\ ret' = ret
       ELSE pc' = "returned" /\ ret' = completion'

\* an entry of the history of page operations: op was called for urls[k]
Started(k, op) == [url |-> k, op |-> op]

\* chromium.launch settles
LaunchSettles ==
    /\ pc = "launch"
    /\ \/ /\ proc' = "running"
          /\ pc' = "newPage"
          /\ UNCHANGED <<completion, ret>>
       \/ /\ \E e \in LaunchErrors : InitializeFailed(e)
          /\ UNCHANGED proc
    /\ UNCHANGED <<urls, browser, i, stage, user, pendingNav, allPosts, failed, started, timedOut>>
    /\ UNCHANGED analyzerVars
    /\ UNCHANGED serviceVars

\* browser.newPage settles
NewPageSettles ==
    /\ pc = "newPage"
    /\ \/ /\ pc' = "setViewport"
          /\ UNCHANGED <<completion, ret>>
       \/ \E e \in SetupErrors : InitializeFailed(e)
    /\ UNCHANGED <<urls, browser, proc, i, stage, user, pendingNav, allPosts, failed, started, timedOut>>
    /\ UNCHANGED analyzerVars
    /\ UNCHANGED serviceVars

\* page.setViewportSize settles
SetViewportSettles ==
    /\ pc = "setViewport"
    /\ \/ /\ pc' = "route"
          /\ UNCHANGED <<completion, ret>>
       \/ \E e \in SetupErrors : InitializeFailed(e)
    /\ UNCHANGED <<urls, browser, proc, i, stage, user, pendingNav, allPosts, failed, started, timedOut>>
    /\ UNCHANGED analyzerVars
    /\ UNCHANGED serviceVars

\* page.route settles; on success initializeBrowser returns, scrapeTweets
\* keeps the browser and scrapeMultipleTweets runs up to the first page.goto
RouteSettles ==
    /\ pc = "route"
    /\ \/ /\ browser' = "instance"
          /\ IF UrlsRejected(urls)
             THEN /\ completion' = FailureResult("URLs must be a non-empty array")
                  /\ pc' = "closing"
                  /\ UNCHANGED <<i, stage, pendingNav, started>>
             ELSE /\ i' = 1
                  /\ stage' = "nav"
                  /\ pendingNav' = {1}
                  /\ started' = {Started(1, "goto")}
                  /\ pc' = "scrape"
                  /\ UNCHANGED completion
          /\ UNCHANGED ret
       \/ /\ \E e \in SetupErrors : InitializeFailed(e)
          /\ UNCHANGED <<browser, i, stage, pendingNav, started>>
    /\ UNCHANGED <<urls, proc, user, allPosts, failed, timedOut>>
    /\ UNCHANGED analyzerVars
    /\ UNCHANGED serviceVars

\* scrapeMultipleTweets pushes post for urls[i] and goes on: to the next
\* page.goto, or out of the loop and through getMergedText and trim into
\* analyzeForAirdrops; pend is the set of unsettled navigations, threw tells
\* whether the post comes from the catch block
AfterPost(post, pend, threw) ==
    LET posts == Append(allPosts, post)
    IN /\ allPosts' = posts
       /\ failed' = IF threw THEN failed \cup {i} ELSE failed
       /\ user' = None
       /\ IF i < Len(urls.items)
          THEN /\ i' = i + 1
               /\ stage' = "nav"
               /\ pendingNav' = pend \cup {i + 1}
               /\ started' = started \cup {Started(i + 1, "goto")}
               /\ pc' = "scrape"
               /\ UNCHANGED analyzerVars
          ELSE /\ i' = i
               /\ stage' = "none"
               /\ pendingNav' = pend
               /\ UNCHANGED started
               /\ pc' = "analyze"
               /\ AnalyzeEnter(JSString(Trim(getMergedText(posts))), "batch")
               /\ UNCHANGED prev
       /\ UNCHANGED <<urls, browser, proc, completion, ret>>

\* page.goto of urls[i] settles before the timer
NavSettles ==
    /\ pc = "scrape"
    /\ stage = "nav"
    /\ \/ /\ stage' = "wait"
          /\ pendingNav' = pendingNav \ {i}
          /\ started' = started \cup {Started(i, "waitForSelector")}
          /\ UNCHANGED <<pc, urls, browser, proc, i, user, allPosts, failed, completion, ret>>
          /\ UNCHANGED analyzerVars
       \/ \E e \in NavigationErrors :
             AfterPost(ErrorPost(urls.items[i], e), pendingNav \ {i}, TRUE)
    /\ UNCHANGED timedOut
    /\ UNCHANGED serviceVars

\* faulty variant of TimerFires: the timer's rejection is not raced against
\* the navigation, so scrapeSingleTweet goes on to the content-wait
TimerFiresIgnored ==
    /\ pc = "scrape"
    /\ stage = "nav"
    /\ timedOut' = timedOut \cup {i}
    /\ stage' = "wait"
    /\ started' = started \cup {Started(i, "waitForSelector")}
    /\ UNCHANGED <<pc, urls, browser, proc, i, user, pendingNav, allPosts, failed, completion, ret>>
    /\ UNCHANGED analyzerVars
    /\ UNCHANGED serviceVars

\* the setTimeout of scrapeSingleTweet fires before page.goto settles
TimerFires ==
    /\ pc = "scrape"
    /\ stage = "nav"
    /\ timedOut' = timedOut \cup {i}
    /\ AfterPost(ErrorPost(urls.items[i], NavigationTimeoutMessage), pendingNav, TRUE)
    /\ UNCHANGED serviceVars

\* a page.goto that lost its race settles
LateNavSettles(j) ==
    /\ j \in pendingNav
    /\ ~(pc = "scrape" /\ stage = "nav" /\ j = i)
    /\ pendingNav' = pendingNav \ {j}
    /\ UNCHANGED <<pc, urls, browser, proc, i, stage, user, allPosts, failed, started, timedOut,
                   completion, ret>>
    /\ UNCHANGED analyzerVars
    /\ UNCHANGED serviceVars

\* page.waitForSelector settles
WaitSettles ==
    /\ pc = "scrape"
    /\ stage = "wait"
    /\ \/ /\ stage' = "user"
          /\ started' = started \cup {Started(i, "evaluate user")}
          /\ UNCHANGED <<pc, urls, browser, proc, i, user, pendingNav, allPosts, failed, completion, ret>>
          /\ UNCHANGED analyzerVars
       \/ AfterPost(ErrorPost(urls.items[i], WaitError), pendingNav, TRUE)
    /\ UNCHANGED timedOut
    /\ UNCHANGED serviceVars

\* the first page.evaluate settles
EvalUserSettles ==
    /\ pc = "scrape"
    /\ stage = "user"
    /\ \/ /\ \E u \in UserResults : user' = u
          /\ stage' = "tweet"
          /\ started' = started \cup {Started(i, "evaluate tweet")}
          /\ UNCHANGED <<pc, urls, browser, proc, i, pendingNav, allPosts, failed, completion, ret>>
          /\ UNCHANGED analyzerVars
       \/ AfterPost(ErrorPost(urls.items[i], EvaluateError), pendingNav, TRUE)
    /\ UNCHANGED timedOut
    /\ UNCHANGED serviceVars

\* the second page.evaluate settles
EvalTweetSettles ==
    /\ pc = "scrape"
    /\ stage = "tweet"
    /\ \/ \E tw \in TweetResults : AfterPost(Post(urls.items[i], user, tw), pendingNav, FALSE)
       \/ AfterPost(ErrorPost(urls.items[i], EvaluateError), pendingNav, TRUE)
    /\ UNCHANGED timedOut
    /\ UNCHANGED serviceVars

\* the await of analyzeForAirdrops in scrapeTweets resumes: the try block
\* returns the envelope, or the catch block the failure object; the finally
\* block calls closeBrowser(browser)
AnalysisReturns ==
    /\ pc = "analyze"
    /\ caller = "batch"
    /\ apc \in {"returned", "threw"}
    /\ completion' = IF apc = "returned"
                     THEN SuccessResult(getMergedText(allPosts), allPosts, result)
                     ELSE FailureResult(result.thrown)
    /\ IF ClosesBrowser(browser)
       THEN pc' = "closing" /\ ret' = ret
       ELSE pc' = "returned" /\ ret' = completion'
    /\ UNCHANGED <<urls, browser, proc, i, stage, user, pendingNav, allPosts, failed, started, timedOut>>
    /\ UNCHANGED analyzerVars
    /\ UNCHANGED serviceVars

\* browser.close() settles: scrapeTweets returns what the try/catch
\* produced, or rejects with the error of close, after which the browser
\* process may or may not be gone
CloseSettles ==
    /\ pc = "closing"
    /\ pc' = "returned"
    /\ \/ /\ proc' = "closed"
          /\ ret' = completion
       \/ /\ proc' \in {"running", "closed"}
          /\ ret' = [rejected |-> TRUE, error |-> CloseError]
    /\ UNCHANGED <<urls, browser, i, stage, user, pendingNav, allPosts, failed, started, timedOut,
                   completion>>
    /\ UNCHANGED analyzerVars
    /\ UNCHANGED serviceVars

\* scrapeTweets called once, with the analyzer it drives
Next ==
    \/ \E us \in UrlArgs : ScrapeTweets(us)
    \/ LaunchSettles
    \/ NewPageSettles
    \/ SetViewportSettles
    \/ RouteSettles
    \/ NavSettles
    \/ TimerFires
    \/ \E j \in 1..MaxUrls : LateNavSettles(j)
    \/ WaitSettles
    \/ EvalUserSettles
    \/ EvalTweetSettles
    \/ \E resp \in Responses : RemoteSettles(resp)
    \/ AnalysisReturns
    \/ CloseSettles

Spec == Init /\ [][Next]_vars

\* analyzeForAirdrops called on its own, once and once more with " airdrop"
\* appended to the corpus
NextAnalyzer ==
    \/ \E arg \in DirectArgs : DirectCall(arg)
    \/ DirectCallAgain
    \/ \E resp \in Responses : RemoteSettles(resp)

SpecAnalyzer == Init /\ [][NextAnalyzer]_vars

\* scrapeTweets with the steps that a timeout bounds taken eventually:
\* chromium.launch (Playwright's launch timeout), page.goto against the
\* timer, page.waitForSelector (waitTimeout), axios.post (timeout: 30000) and
\* the resumption of scrapeTweets after analyzeForAirdrops; newPage,
\* setViewportSize, route, page.evaluate and browser.close carry no timeout
SpecLive ==
    /\ Init
    /\ [][Next]_vars
    /\ WF_vars(LaunchSettles)
    /\ WF_vars(NavSettles \/ TimerFires)
    /\ WF_vars(WaitSettles)
    /\ WF_vars(\E resp \in Responses : RemoteSettles(resp))
    /\ WF_vars(AnalysisReturns)

\* ------------------------------------------------------------------------
\* Properties
\* ------------------------------------------------------------------------

\* scrapeMultipleTweets has returned its array for a non-empty URL list
LoopDone == pc \in {"analyze", "closing", "returned"} /\ browser = "instance" /\ ~UrlsRejected(urls)

\* analyzeForAirdrops has returned a value that the local strategy computed
LocalReturned == apc = "returned" /\ localCalls >= 1

\* a string of white space only, the empty string included
AllWhite(str) == \A k \in 1..Len(str) : CharAt(str, k) \in {" ", "\n", "\t"}

\* a missing, empty or white-space-only corpus
BlankCorpus(arg) == arg \in {JSUndefined, JSNull} \/ AllWhite(arg.v)

\* the number of keywords of a list that occur in a text
Present(text, keywords) ==
    Cardinality({ k \in { keywords[n] : n \in 1..Len(keywords) } : Includes(text, k) })

RECURSIVE SumPresent(_, _)
SumPresent(text, n) ==
    IF n = 0 THEN 0
    ELSE Present(text, categoryKeywords[n].keywords) + SumPresent(text, n - 1)

\* the weighted keyword count of claim C8, before the cap
WeightedCount(str) ==
    LET text == ToLowerCase(str)
    IN 3 * Present(text, airdropKeywords)
         + 2 * SumPresent(text, Len(categoryKeywords))
         + Present(text, actionKeywords)

\* C1 (as claimed): when scrapeTweets has returned, the browser process it
\* launched is not left running, on any exit path.
C1_BrowserClosedOnReturn == pc = "returned" => proc # "running"

C3_NonCanonicalGivesLocal ==
    (apc = "returned" /\ remoteCalls = 1 /\ response.kind = "body"
       /\ ~IsCanonicalResponse(response))
      => result = localAirdropAnalysis(fullText.v)

\* C4: when the remote call fails (transport error, non-success status,
\* timeout), analyzeForAirdrops does not throw and returns the local result
\* for the same corpus, an object with the canonical keys.
C4_RemoteFailureFallsBack ==
    /\ apc # "threw"
    /\ response.kind = "reject" =>
         /\ apc = "returned"
         /\ result = localAirdropAnalysis(fullText.v)
         /\ DOMAIN result = CanonicalKeys

\* C4 witness: the request timed out and the call has returned
C4_Witness ==
    /\ response.kind = "reject"
    /\ response.error = "timeout of 30000ms exceeded"
    /\ apc = "returned"

\* C5: one analyzeForAirdrops call sends no request without a credential or
\* with a blank corpus and exactly one otherwise; the local strategy runs
\* exactly once when there is no credential, when the request failed or when
\* the response could not be read or parsed, and not at all otherwise.
C5_AtMostOneRequest ==
    apc # "idle" =>
      /\ remoteCalls = IF apiKey /\ ~BlankCorpus(fullText)
                       THEN 1 ELSE 0
      /\ apc \in {"returned", "threw"} =>
           localCalls =
             IF BlankCorpus(fullText) THEN 0
             ELSE IF ~apiKey THEN 1
             ELSE IF response.kind = "reject" THEN 1
             ELSE IF response.shape # "content" THEN 1
             ELSE IF ~response.content.json THEN 1
             ELSE 0

\* C5 witness: a response that is not JSON, answered by one local run
C5_Witness ==
    /\ apc = "returned"
    /\ response.kind = "body"
    /\ response.shape = "content"
    /\ ~response.content.json
    /\ remoteCalls = 1
    /\ localCalls = 1

\* C6: for a missing, empty or white-space-only corpus analyzeForAirdrops
\* returns the constant of createEmptyAnalysis (score 0, no opportunity) and
\* runs neither strategy, with or without a credential.
C6_BlankGivesEmpty ==
    (apc # "idle" /\ BlankCorpus(fullText)) =>
      /\ apc = "returned"
      /\ result = createEmptyAnalysis
      /\ result.airdrop_potential = 0
      /\ ~result.has_airdrop_opportunity
      /\ remoteCalls = 0
      /\ localCalls = 0

\* C6 witness: a white-space-only corpus with a credential configured
C6_Witness ==
    /\ apiKey
    /\ apc = "returned"
    /\ fullText = JSString("   ")

\* C7 (as claimed): every analysis object that analyzeForAirdrops returns
\* has a score in 0..10, the parsed remote response included.
C7_ScoreInRange ==
    (apc = "returned" /\ DOMAIN result = CanonicalKeys)
      => result.airdrop_potential \in 0..10

\* C8: the local strategy's score is min(10, 3 x direct indicators present
\* + 2 x category keywords present, summed over the twelve sets, + action
\* keywords present), and lies in 0..10.
C8_LocalScoreFormula ==
    LocalReturned =>
      /\ result.airdrop_potential = Min(10, WeightedCount(fullText.v))
      /\ result.airdrop_potential \in 0..10

\* C8 witness: a corpus whose weighted count exceeds 10 and is capped
C8_Witness ==
    /\ LocalReturned
    /\ WeightedCount(fullText.v) > 10
    /\ result.airdrop_potential = 10

\* C9: for the local strategy has_airdrop_opportunity is true exactly when
\* airdrop_potential >= 4.
C9_OpportunityIffScoreAtLeast4 ==
    LocalReturned =>
      (result.has_airdrop_opportunity <=> result.airdrop_potential >= 4)

\* C9 witness: a corpus that scores exactly 4
C9_Witness ==
    /\ LocalReturned
    /\ result.airdrop_potential = 4
    /\ result.has_airdrop_opportunity

\* the local strategy scored a corpus T and then T + " airdrop"
ScoredTwice ==
    /\ prev # None
    /\ prev.localCalls >= 1
    /\ LocalReturned
    /\ fullText.v = prev.text \o " airdrop"

\* C10 (as claimed): score(T + " airdrop") >= min(10, score(T) + 3) for
\* every text T, also when T already contains "airdrop".
C10_AppendAirdropAddsThree ==
    ScoredTwice =>
      result.airdrop_potential >= Min(10, prev.result.airdrop_potential + 3)

\* C10 (amended): score(T + " airdrop") >= min(10, score(T) + 3) for every
\* text T whose lower-cased form does not contain "airdrop"; for the other
\* texts the score does not go down.
C10_AppendAirdropAddsThreeWhenNew ==
    ScoredTwice =>
      /\ result.airdrop_potential >= prev.result.airdrop_potential
      /\ ~Includes(ToLowerCase(prev.text), "airdrop") =>
           result.airdrop_potential >= Min(10, prev.result.airdrop_potential + 3)

\* C10 witness: T = "raindrop" gains exactly 3 and stays under the cap
C10_Witness ==
    /\ ScoredTwice
    /\ prev.text = "raindrop"
    /\ result.airdrop_potential = prev.result.airdrop_potential + 3
    /\ result.airdrop_potential < 10

\* ------------------------------------------------------------------------
\* Properties of scrapeTweets' envelope, corpus and scheduling
\* ------------------------------------------------------------------------

\* scrapeTweets has settled with an object (it did not reject)
ReturnedObject == pc = "returned" /\ "success" \in DOMAIN ret

\* C11 (as claimed): every object scrapeTweets returns, from its try block
\* and from its catch block alike, has the keys fullText (the corpus),
\* success, totalPosts and analysis
C11_SameEnvelopeKeys ==
    ReturnedObject => {"fullText", "success", "totalPosts", "analysis"} \subseteq DOMAIN ret

\* C12 (as claimed): for an array of URLs, scrapeTweets returns
\* success = false exactly when initializeBrowser did not give it a browser,
\* and then with a non-empty error and without any page operation started
C12_FailureOnlyWithoutBrowser ==
    (ReturnedObject /\ urls.isArray) =>
        /\ (ret.success = FALSE) <=> (browser = "null")
        /\ (ret.success = FALSE) => (ret.error # "" /\ started = {})

\* C13 (as claimed): the promise of scrapeTweets never rejects, whatever
\* failed inside it, closing the browser included
C13_NeverRejects == pc = "returned" => "rejected" \notin DOMAIN ret

\* the text fields of the posts that have no error and a non-empty text, in
\* the order of the posts
RECURSIVE TextsOf(_)
TextsOf(posts) ==
    IF Len(posts) = 0 THEN << >>
    ELSE LET post == posts[Len(posts)]
             keep == /\ "error" \notin DOMAIN post
                     /\ "tweet" \in DOMAIN post
                     /\ Len(post.tweet.text) > 0
         IN TextsOf(SubSeq(posts, 1, Len(posts) - 1))
              \o (IF keep THEN <<post.tweet.text>> ELSE << >>)

\* texts joined with a blank line between neighbours
RECURSIVE BlankLineJoined(_)
BlankLineJoined(texts) ==
    IF Len(texts) = 0 THEN ""
    ELSE IF Len(texts) = 1 THEN texts[1]
    ELSE BlankLineJoined(SubSeq(texts, 1, Len(texts) - 1)) \o "\n" \o "\n" \o texts[Len(texts)]

\* C14: once the loop over the URLs is over, the corpus of the post list is
\* the trimmed blank-line join of the texts of the posts without error and
\* with non-empty text, in input order: getMergedText gives it, the analyzer
\* receives it, the envelope carries it (merging again gives the same), and
\* it is the empty string when no post yielded text
C14_CorpusIsTrimmedJoin ==
    LoopDone =>
        LET expected == Trim(BlankLineJoined(TextsOf(allPosts)))
        IN /\ getMergedText(allPosts) = expected
           /\ fullText = JSString(expected)
           /\ (TextsOf(allPosts) = << >>) => (getMergedText(allPosts) = "")
           /\ (pc = "returned" /\ "fullText" \in DOMAIN ret) => (ret.fullText = expected)

\* C14 witness: a returned batch of two posts that both yielded text
C14_Witness ==
    /\ pc = "returned"
    /\ "fullText" \in DOMAIN ret
    /\ Len(TextsOf(allPosts)) = 2
    /\ ret.fullText = "Join testnet\n\nAIRDROP"

\* the operations started on the page for urls[k]
OpsOf(k) == { r.op : r \in { q \in started : q.url = k } }

\* C15: when the timer of scrapeSingleTweet settles before page.goto, the
\* post of that URL is the error entry with the navigation-timeout message
\* (a non-empty string), neither waitForSelector nor page.evaluate is ever
\* called for that URL, the loop goes on to the next URL, and every URL
\* whose extraction did not throw carries its user and tweet
C15_TimerWinsRace ==
    /\ \A k \in timedOut :
          /\ k <= Len(allPosts)
          /\ allPosts[k] = [url |-> urls.items[k], error |-> NavigationTimeoutMessage]
          /\ Len(allPosts[k].error) > 0
          /\ OpsOf(k) = {"goto"}
          /\ k < Len(urls.items) => "goto" \in OpsOf(k + 1)
          /\ k = Len(urls.items) => pc \in {"analyze", "closing", "returned"}
    /\ \A k \in 1..Len(allPosts) :
          k \notin failed =>
              /\ "error" \notin DOMAIN allPosts[k]
              /\ allPosts[k].tweet \in TweetResults
              /\ "evaluate tweet" \in OpsOf(k)
    /\ LoopDone => Len(allPosts) = Len(urls.items)

\* C15 witness: the first of two URLs timed out during navigation and the
\* second carries its extracted text in the returned batch
C15_Witness ==
    /\ pc = "returned"
    /\ timedOut = {1}
    /\ Len(allPosts) = 2
    /\ "tweet" \in DOMAIN allPosts[2]
    /\ allPosts[2].tweet.text = "AIRDROP"
    /\ ret.totalPosts = 2

\* C16 (as claimed): the single page never has the page.goto of two URLs
\* unsettled at once: the navigation of the next URL starts only when
\* nothing started for the URL before it is still pending
C16_OneNavigationAtATime == Cardinality(pendingNav) <= 1

\* C17 (as claimed): once scrapeTweets has its page and has started on the
\* URLs it eventually returns, given only that the steps bounded by a
\* timeout are taken
C17_EventuallyReturns == (pc = "scrape") ~> (pc = "returned")

\* ------------------------------------------------------------------------
\* The collaborators that call scrapeTweets: the /check command of the
\* Telegram bot (src/telegram-bot/bot.js) and POST /api/analyze-twitter of
\* the web server (src/unnamed/part_002)
\* ------------------------------------------------------------------------

\* most tokens after /check in a message, most entries of a posted urls array
MaxFrontUrls == 2

IsAlpha(c) == Includes(UpperChars, c) \/ Includes(LowerChars, c)

IsDigit(c) == Includes(DigitChars, c)

\* the first index from p on whose character is not in set, Len(s) + 1 if none
RECURSIVE SkipWhile(_, _, _)
SkipWhile(s, p, set) ==
    IF p <= Len(s) /\ CharAt(s, p) \in set THEN SkipWhile(s, p + 1, set) ELSE p

\* the first index from p on whose character is in stops, Len(s) + 1 if none
RECURSIVE ScanUntil(_, _, _)
ScanUntil(s, p, stops) ==
    IF p <= Len(s) /\ CharAt(s, p) \notin stops THEN ScanUntil(s, p + 1, stops) ELSE p

\* s has sub at index p
HasAt(s, sub, p) == p + Len(sub) - 1 <= Len(s) /\ SubSeq(s, p, p + Len(sub) - 1) = sub

\* /(https?:\/\/[^\s]+)/ tried at index p: the index of the last character
\* of the match, 0 when there is no match at p
UrlMatchAt(s, p) ==
    LET head == IF HasAt(s, "http://", p) THEN 7
                ELSE IF HasAt(s, "https://", p) THEN 8
                ELSE 0
    IN IF head = 0 \/ p + head > Len(s) \/ IsWhite(CharAt(s, p + head)) THEN 0
       ELSE ScanUntil(s, p + head, {" ", "\n", "\t"}) - 1

\* the successive matches of the global regex from index p on
RECURSIVE MatchAll(_, _)
MatchAll(s, p) ==
    IF p > Len(s) THEN << >>
    ELSE LET last == UrlMatchAt(s, p)
         IN IF last = 0 THEN MatchAll(s, p + 1)
            ELSE <<SubSeq(s, p, last)>> \o MatchAll(s, last + 1)

\* messageText.match(urlRegex): the array of matches, or null when none
MatchUrls(messageText) ==
    LET all == MatchAll(messageText, 1)
    IN IF Len(all) = 0 THEN JSNull ELSE JSArray(all)

\* the special schemes of the URL parser that take a host (file is left out)
SpecialSchemes == {"http", "https", "ftp", "ws", "wss"}

\* the index of the ":" that ends a scheme at the start of s, 0 when s does
\* not start with a scheme
SchemeEnd(s) ==
    IF Len(s) = 0 \/ ~IsAlpha(CharAt(s, 1)) THEN 0
    ELSE LET stop == SkipWhile(s, 1, { c \in { CharAt(s, k) : k \in 1..Len(s) } :
                                         IsAlpha(c) \/ IsDigit(c) \/ c \in {"+", "-", "."} })
         IN IF stop <= Len(s) /\ CharAt(s, stop) = ":" THEN stop ELSE 0

\* the host of an authority: after the last "@", before the port
HostOf(authority) ==
    LET ats == { k \in 1..Len(authority) : CharAt(authority, k) = "@" }
        at == IF ats = {} THEN 0 ELSE CHOOSE k \in ats : \A j \in ats : j <= k
        hostport == SubSeq(authority, at + 1, Len(authority))
    IN SubSeq(hostport, 1, ScanUntil(hostport, 1, {":"}) - 1)

\* a host of letters, digits, dots and hyphens; the parser rejects a host
\* with a forbidden code point such as "[", "<" or a space
ValidHost(host) ==
    \A k \in 1..Len(host) :
        IsAlpha(CharAt(host, k)) \/ IsDigit(CharAt(host, k)) \/ CharAt(host, k) \in {".", "-"}

\* new URL(input) without a base: [ok |-> FALSE] for the TypeError, else the
\* protocol and hostname of the parsed URL
URLParse(input) ==
    LET s == Trim(input)
        colon == SchemeEnd(s)
        scheme == ToLowerCase(SubSeq(s, 1, colon - 1))
        special == scheme \in SpecialSchemes
        start == IF special THEN SkipWhile(s, colon + 1, {"/", "\\"})
                 ELSE IF HasAt(s, "//", colon + 1) THEN colon + 3
                 ELSE 0
        stop == ScanUntil(s, start, IF special THEN {"/", "\\", "?", "#"} ELSE {"/", "?", "#"})
        host == IF start = 0 THEN "" ELSE HostOf(SubSeq(s, start, stop - 1))
    IN IF colon = 0 THEN [ok |-> FALSE]
       ELSE IF special /\ Len(host) = 0 THEN [ok |-> FALSE]
       ELSE IF ~ValidHost(host) THEN [ok |-> FALSE]
       ELSE [ok |-> TRUE,
             protocol |-> scheme \o ":",
             hostname |-> IF special THEN ToLowerCase(host) ELSE host]

\* TwitterAnalysisServer.isValidURL
isValidURL(string) == URLParse(string).ok

\* TwitterAnalysisServer.isTwitterURL
isTwitterURL(url) ==
    LET urlObj == URLParse(url)
    IN urlObj.ok /\ ToLowerCase(urlObj.hostname)
                      \in {"twitter.com", "www.twitter.com", "x.com", "www.x.com"}

\* what a user may type after /check, token by token
BotTokens ==
    {"https://x.com/user/status/1", "http://twitter.com/user/status/2",
     "https://example.com/phish", "https://[", "see:https://x.com/a,https://t.co/b",
     "HTTPS://X.COM/user/status/3", "hello"}

RECURSIVE TokenTexts(_)
TokenTexts(n) ==
    IF n = 0 THEN {""}
    ELSE { t \o sep \o w : t \in TokenTexts(n - 1), sep \in {" ", "\n"}, w \in BotTokens }

\* ctx.message.text of a /check command
Messages == { "/check" \o t : t \in UNION { TokenTexts(n) : n \in 0..MaxFrontUrls } }

\* entries a client may post in the urls array
WebUrls ==
    {"https://x.com/user/status/1", "http://www.twitter.com/user/status/2",
     "HTTPS://X.COM/user/status/3", "https://example.com/x.com",
     "https://x.com@example.com/", "ftp://x.com/dump", "x.com/user/status/4",
     "javascript:alert(1)"}

RECURSIVE UrlArrays(_)
UrlArrays(n) ==
    IF n = 0 THEN { << >> }
    ELSE { Append(a, u) : a \in UrlArrays(n - 1), u \in WebUrls }

\* req.body.urls: missing, a string, or an array of strings
PostedUrls ==
    {JSUndefined, JSString("https://x.com/user/status/1")}
      \cup { JSArray(a) : a \in UNION { UrlArrays(n) : n \in 0..MaxFrontUrls } }

\* the entries of urls that the validation loop of the route rejects
Rejected(list) == SelectSeq(list, LAMBDA url : ~isValidURL(url) \/ ~isTwitterURL(url))

\* the /check handler up to its call of scrapeTweets: the usage reply when
\* the regex matches nothing, else every match goes to scrapeTweets
TelegramCheck(messageText) ==
    /\ inbound = None
    /\ inbound' = [via |-> "telegram", text |-> messageText]
    /\ LET matches == MatchUrls(messageText)
       IN IF matches = JSNull
          THEN /\ passed' = NotCalled
               /\ reply' = [kind |-> "usage"]
          ELSE /\ passed' = CalledWith(matches.v)
               /\ reply' = [kind |-> "processing"]
    /\ UNCHANGED <<analyzerVars, batchVars, concurrentVars, launcherVars, storeVars, webVars>>

\* the POST /api/analyze-twitter handler up to its call of scrapeTweets
WebAnalyze(posted) ==
    /\ inbound = None
    /\ inbound' = [via |-> "web", urls |-> posted]
    /\ IF posted = JSUndefined \/ posted.t # "array"
       THEN /\ passed' = NotCalled
            /\ reply' = [kind |-> "400", error |-> "URLs array is required"]
       ELSE IF Len(Rejected(posted.v)) > 0
       THEN /\ passed' = NotCalled
            /\ reply' = [kind |-> "400",
                         error |-> "Invalid Twitter/X URL: " \o Rejected(posted.v)[1]]
       ELSE /\ passed' = CalledWith(posted.v)
            /\ reply' = [kind |-> "processing"]
    /\ UNCHANGED <<analyzerVars, batchVars, concurrentVars, launcherVars, storeVars, webVars>>

\* scrapeTweets has answered the collaborator: the analysis goes out when
\* result.success holds, the error otherwise
ScrapeAnswered(success) ==
    /\ passed.called
    /\ reply = [kind |-> "processing"]
    /\ reply' = IF success THEN [kind |-> "analysis"] ELSE [kind |-> "error"]
    /\ UNCHANGED <<inbound, passed>>
    /\ UNCHANGED <<analyzerVars, batchVars, concurrentVars, launcherVars, storeVars, webVars>>

NextFront ==
    \/ \E messageText \in Messages : TelegramCheck(messageText)
    \/ \E posted \in PostedUrls : WebAnalyze(posted)
    \/ \E success \in BOOLEAN : ScrapeAnswered(success)

SpecFront == Init /\ [][NextFront]_vars

\* url parses as a URL whose protocol is http or https
WellFormedHttp(url) == URLParse(url).ok /\ URLParse(url).protocol \in {"http:", "https:"}

\* url parses as a URL whose host is a Twitter/X host
OnTwitterHost(url) ==
    URLParse(url).ok /\ URLParse(url).hostname \in {"twitter.com", "www.twitter.com", "x.com", "www.x.com"}

\* C18 (as claimed): every URL that the /check command or the
\* /api/analyze-twitter route hands to scrapeTweets is a well-formed http or
\* https URL on a Twitter/X host
C18_OnlyTwitterUrlsReachCore ==
    passed.called =>
        \A k \in 1..Len(passed.urls) :
            WellFormedHttp(passed.urls[k]) /\ OnTwitterHost(passed.urls[k])

\* ------------------------------------------------------------------------
\* scrapeTweets calls in flight at once in one process: each call has its
\* own locals (browser, page, posts); the module shares aiAnalyzer
\* (src/src/fetchPost.js line 3)
\* ------------------------------------------------------------------------

\* what a page shows before its first navigation
BlankPage == [text |-> "", timestamp |-> ""]

\* how axios.post settles for a concurrent call
ConcurrentResponses ==
    { [kind |-> "reject", error |-> "timeout of 30000ms exceeded"],
      [kind |-> "body", shape |-> "content", content |-> JSONText(RemoteAnalysis(8, TRUE))],
      [kind |-> "body", shape |-> "content",
       content |-> NotJSON("Sure! Here is the analysis you asked for")] }

\* an entry of the history of browser uses
PageOp(c, b, op) == [call |-> c, browser |-> b, op |-> op]

\* what the request of aiAirdropAnalysis reads from the analyzer instance
RequestOf(key, cfg) == [apiKey |-> key, model |-> cfg.model, baseURL |-> cfg.baseURL]

CallStart(c) ==
    /\ calls[c].pc = "idle"
    /\ calls' = [calls EXCEPT ![c].pc = "launch"]
    /\ UNCHANGED <<config, browsers, pageOps>>
    /\ UNCHANGED <<analyzerVars, batchVars, frontVars, launcherVars, storeVars, webVars>>

\* faulty variant of CallLaunchSettles: the browser is kept in a variable
\* of the module, which every call in flight then uses
CallLaunchSettlesShared(c) ==
    /\ calls[c].pc = "launch"
    /\ LET b == Len(browsers) + 1
       IN /\ browsers' = Append(browsers, [owner |-> c, open |-> TRUE, content |-> BlankPage])
          /\ calls' = [d \in Calls |->
                         IF d = c THEN [calls[d] EXCEPT !.pc = "nav", !.browser = b]
                         ELSE IF calls[d].browser # 0 THEN [calls[d] EXCEPT !.browser = b]
                         ELSE calls[d]]
          /\ pageOps' = pageOps \cup {PageOp(c, b, "newPage")}
    /\ UNCHANGED config
    /\ UNCHANGED <<analyzerVars, batchVars, frontVars, launcherVars, storeVars, webVars>>

\* initializeBrowser of call c settles: a new browser and page that the
\* locals of c alone refer to, or the failure object
CallLaunchSettles(c) ==
    /\ calls[c].pc = "launch"
    /\ \/ LET b == Len(browsers) + 1
          IN /\ browsers' = Append(browsers, [owner |-> c, open |-> TRUE, content |-> BlankPage])
             /\ calls' = [calls EXCEPT ![c].pc = "nav", ![c].browser = b]
             /\ pageOps' = pageOps \cup {PageOp(c, b, "newPage")}
       \/ /\ calls' = [calls EXCEPT
                         ![c].pc = "returned",
                         ![c].result = FailureResult(ErrorOfInitialize("spawn /usr/bin/chrome ENOENT"))]
          /\ UNCHANGED <<browsers, pageOps>>
    /\ UNCHANGED config
    /\ UNCHANGED <<analyzerVars, batchVars, frontVars, launcherVars, storeVars, webVars>>

\* the rest of scrapeTweets of call c once scrapeMultipleTweets returned
\* posts: merge, trim, and analyzeForAirdrops up to its first suspension
CallAnalyze(c, posts) ==
    LET merged == getMergedText(posts)
        arg == JSString(Trim(merged))
        branch == Dispatch(arg, apiKey)
        local == AnalyzeCatch(Return(localAirdropAnalysis(arg.v), 1), arg.v)
    IN [calls[c] EXCEPT
          !.posts = posts,
          !.pc = IF branch = "remote" THEN "awaitRemote" ELSE "closing",
          !.request = IF branch = "remote" THEN RequestOf(apiKey, config) ELSE @,
          !.result = IF branch = "empty" THEN SuccessResult(merged, posts, createEmptyAnalysis)
                     ELSE IF branch = "local" THEN SuccessResult(merged, posts, local.value)
                     ELSE @]

\* page.goto of call c settles on the page of the browser c holds: the page
\* shows a tweet, or the navigation fails and the error post is pushed
CallNavSettles(c) ==
    /\ calls[c].pc = "nav"
    /\ pageOps' = pageOps \cup {PageOp(c, calls[c].browser, "goto")}
    /\ \/ /\ \E tw \in TweetResults :
                browsers' = [browsers EXCEPT ![calls[c].browser].content = tw]
          /\ calls' = [calls EXCEPT ![c].pc = "eval"]
       \/ /\ calls' = [calls EXCEPT
                         ![c] = CallAnalyze(c, <<ErrorPost(Url(c), "page.goto: net::ERR_NAME_NOT_RESOLVED")>>)]
          /\ UNCHANGED browsers
    /\ UNCHANGED config
    /\ UNCHANGED <<analyzerVars, batchVars, frontVars, launcherVars, storeVars, webVars>>

\* the page.evaluate calls of call c read the page of the browser c holds
CallEvalSettles(c) ==
    /\ calls[c].pc = "eval"
    /\ pageOps' = pageOps \cup {PageOp(c, calls[c].browser, "evaluate")}
    /\ \E u \in UserResults :
          calls' = [calls EXCEPT
                      ![c] = CallAnalyze(c, <<Post(Url(c), u, browsers[calls[c].browser].content)>>)]
    /\ UNCHANGED <<config, browsers>>
    /\ UNCHANGED <<analyzerVars, batchVars, frontVars, launcherVars, storeVars, webVars>>

\* axios.post of call c settles
CallRemoteSettles(c, resp) ==
    /\ calls[c].pc = "awaitRemote"
    /\ LET text == Trim(getMergedText(calls[c].posts))
           done == AnalyzeCatch(AiAfterResponse(resp, text), text)
       IN calls' = [calls EXCEPT
                      ![c].pc = "closing",
                      ![c].resp = resp,
                      ![c].result = IF done.threw THEN FailureResult(done.error)
                                    ELSE SuccessResult(getMergedText(calls[c].posts),
                                                       calls[c].posts, done.value)]
    /\ UNCHANGED <<config, browsers, pageOps>>
    /\ UNCHANGED <<analyzerVars, batchVars, frontVars, launcherVars, storeVars, webVars>>

\* closeBrowser(browser) of call c settles and the call returns
CallCloseSettles(c) ==
    /\ calls[c].pc = "closing"
    /\ browsers' = [browsers EXCEPT ![calls[c].browser].open = FALSE]
    /\ pageOps' = pageOps \cup {PageOp(c, calls[c].browser, "close")}
    /\ calls' = [calls EXCEPT ![c].pc = "returned"]
    /\ UNCHANGED config
    /\ UNCHANGED <<analyzerVars, batchVars, frontVars, launcherVars, storeVars, webVars>>

NextConcurrent ==
    \/ \E c \in Calls : CallStart(c)
    \/ \E c \in Calls : CallLaunchSettles(c)
    \/ \E c \in Calls : CallNavSettles(c)
    \/ \E c \in Calls : CallEvalSettles(c)
    \/ \E c \in Calls, resp \in ConcurrentResponses : CallRemoteSettles(c, resp)
    \/ \E c \in Calls : CallCloseSettles(c)

SpecConcurrent == Init /\ [][NextConcurrent]_vars

\* the browsers that call c launched
LaunchedBy(c) == { b \in 1..Len(browsers) : browsers[b].owner = c }

\* call c has returned the envelope of its try block
ReturnedEnvelope(c) == calls[c].pc = "returned" /\ calls[c].result.success

\* what the page of the browser that call c launched shows
OwnPage(c) == browsers[CHOOSE b \in LaunchedBy(c) : TRUE].content

\* C19: under every interleaving of the calls in flight, no step writes the
\* analyzer's credential, model or endpoint; every use of a browser is by
\* the call that launched it and a call launches at most one; a request
\* carries the constructed configuration; the corpus a call returns is the
\* text of the page it opened itself; and two calls that saw the same page
\* text and the same response return the same result
C19_CallsDoNotInterfere ==
    /\ [][config' = config /\ apiKey' = apiKey]_vars
    /\ [](\A op \in pageOps : browsers[op.browser].owner = op.call)
    /\ [](\A c \in Calls :
            /\ Cardinality(LaunchedBy(c)) <= 1
            /\ calls[c].browser # 0 => LaunchedBy(c) = {calls[c].browser}
            /\ calls[c].request # None => calls[c].request = RequestOf(apiKey, config)
            /\ (ReturnedEnvelope(c) /\ calls[c].browser # 0) =>
                   calls[c].result.fullText = OwnPage(c).text)
    /\ [](\A c, d \in Calls :
            (/\ ReturnedEnvelope(c)
             /\ ReturnedEnvelope(d)
             /\ getMergedText(calls[c].posts) = getMergedText(calls[d].posts)
             /\ calls[c].resp = calls[d].resp)
                => calls[c].result.analysis = calls[d].result.analysis)

\* C19 witness: call 2 launched its browser first and still waits for the
\* remote answer on the corpus "AIRDROP" with its browser open, while call 1
\* has already returned the corpus "Join testnet" of its own page
C19_Witness ==
    /\ ReturnedEnvelope(1)
    /\ calls[1].result.fullText = "Join testnet"
    /\ calls[2].pc = "awaitRemote"
    /\ calls[2].browser # 0
    /\ calls[2].browser < calls[1].browser
    /\ browsers[calls[2].browser].open
    /\ browsers[calls[2].browser].content.text = "AIRDROP"

\* ------------------------------------------------------------------------
\* The launchers that run the two services as child processes:
\* src/start-production.js (not on Heroku), the development launcher
\* (src/telegram-bot/bot.js 453-549) and AllInOneManager
\* (src/unnamed/part_001)
\* ------------------------------------------------------------------------

\* most child processes one launcher run spawns, restarts included
MaxChildren == 4

LauncherKinds == {"production", "development", "all-in-one"}

\* the code of a child's close event: null when a signal ended the child
ExitCodes == {JSNumber(0), JSNumber(1), JSNumber(130), JSNull}

\* the signals a user or a supervisor sends to the launcher
StopSignals == {"SIGINT", "SIGTERM"}

\* a child right after spawn('node', [script])
SpawnedChild(service) ==
    [service |-> service, status |-> "running", killed |-> FALSE, signalled |-> FALSE]

\* the condition under which the close handler of a child schedules a
\* restart of its service
RestartsOn(kind, code, shuttingDown) ==
    IF kind = "production" THEN code # JSNumber(0) /\ code # JSNull
    ELSE IF kind = "development"
    THEN code # JSNumber(0) /\ code # JSNull /\ code # JSNumber(130)
    ELSE ~shuttingDown

\* child.kill('SIGTERM'): the signal reaches a running child, whose killed
\* flag is then set; on a child that has exited it does nothing
Kill(child) ==
    IF child.status = "running"
    THEN [child EXCEPT !.killed = TRUE, !.signalled = TRUE]
    ELSE child

\* the children the signal handler of the launcher calls kill on: the two
\* it holds in botProcess and webProcess unless their killed flag is set,
\* or every entry of AllInOneManager.processes
KilledByHandler(kind) ==
    { refs[sv] : sv \in { svc \in Services :
                            kind = "all-in-one" \/ ~children[refs[svc]].killed } }

\* the launcher script runs to its end: both services spawned, the signal
\* handlers installed
LauncherStart(kind) ==
    /\ launcher = "none"
    /\ launcher' = kind
    /\ children' = <<SpawnedChild("bot"), SpawnedChild("web")>>
    /\ refs' = [sv \in Services |-> IF sv = "bot" THEN 1 ELSE 2]
    /\ lpc' = "up"
    /\ UNCHANGED <<timers, isShuttingDown, atSignal>>
    /\ UNCHANGED <<analyzerVars, batchVars, frontVars, concurrentVars, storeVars, webVars>>

\* child k exits; while the launcher lives its close handler runs and may
\* set the restart timer of the service
ChildCloses(k, code) ==
    /\ k \in 1..Len(children)
    /\ children[k].status = "running"
    /\ children' = [children EXCEPT ![k].status = "exited"]
    /\ timers' = IF lpc \in {"up", "signalled"} /\ RestartsOn(launcher, code, isShuttingDown)
                 THEN timers \cup {children[k].service}
                 ELSE timers
    /\ UNCHANGED <<launcher, refs, isShuttingDown, lpc, atSignal>>
    /\ UNCHANGED <<analyzerVars, batchVars, frontVars, concurrentVars, storeVars, webVars>>

\* the restart timer of a service fires: startProcess runs again and its
\* return value is dropped; startTelegramBot and startWebUI of
\* AllInOneManager store the new child in this.processes
RestartTimerFires(service) ==
    /\ service \in timers
    /\ lpc \in {"up", "signalled"}
    /\ Len(children) < MaxChildren
    /\ timers' = timers \ {service}
    /\ children' = Append(children, SpawnedChild(service))
    /\ refs' = IF launcher = "all-in-one"
               THEN [refs EXCEPT ![service] = Len(children) + 1]
               ELSE refs
    /\ UNCHANGED <<launcher, isShuttingDown, lpc, atSignal>>
    /\ UNCHANGED <<analyzerVars, batchVars, frontVars, concurrentVars, storeVars, webVars>>

\* the launcher receives SIGINT or SIGTERM and its handler runs: the kills,
\* then process.exit(0) at once (SIGTERM of the two scripts) or after 2 s
SignalArrives(sig) ==
    /\ lpc = "up"
    /\ atSignal' = { k \in 1..Len(children) : children[k].status = "running" }
    /\ children' = [k \in 1..Len(children) |->
                      IF k \in KilledByHandler(launcher) THEN Kill(children[k])
                      ELSE children[k]]
    /\ isShuttingDown' = (launcher = "all-in-one")
    /\ IF launcher # "all-in-one" /\ sig = "SIGTERM"
       THEN lpc' = "exited" /\ timers' = {}
       ELSE lpc' = "signalled" /\ timers' = timers
    /\ UNCHANGED <<launcher, refs>>
    /\ UNCHANGED <<analyzerVars, batchVars, frontVars, concurrentVars, storeVars, webVars>>

\* the 2 s timer of the handler fires: process.exit(0), which also ends the
\* pending restart timers
ExitTimerFires ==
    /\ lpc = "signalled"
    /\ lpc' = "exited"
    /\ timers' = {}
    /\ UNCHANGED <<launcher, children, refs, isShuttingDown, atSignal>>
    /\ UNCHANGED <<analyzerVars, batchVars, frontVars, concurrentVars, storeVars, webVars>>

NextLauncher ==
    \/ \E kind \in LauncherKinds : LauncherStart(kind)
    \/ \E k \in 1..MaxChildren, code \in ExitCodes : ChildCloses(k, code)
    \/ \E service \in Services : RestartTimerFires(service)
    \/ \E sig \in StopSignals : SignalArrives(sig)
    \/ ExitTimerFires

SpecLauncher == Init /\ [][NextLauncher]_vars

\* C20 (as claimed): once the handler of SIGINT or SIGTERM has run, every
\* child that was running when the signal arrived, a child started by a
\* restart included, has been sent SIGTERM
C20_EveryRunningChildSignalled ==
    lpc \in {"signalled", "exited"} => \A k \in atSignal : children[k].signalled


\* ------------------------------------------------------------------------
\* Properties of the local strategy's classification
\* ------------------------------------------------------------------------

\* the indices of the category sets with a keyword in the lower-cased corpus
MatchingCategories(str) ==
    LET text == ToLowerCase(str)
    IN { n \in 1..Len(categoryKeywords) :
           \E k \in 1..Len(categoryKeywords[n].keywords) :
               Includes(text, categoryKeywords[n].keywords[k]) }

\* the last of them in the iteration order
LastMatching(str) ==
    CHOOSE n \in MatchingCategories(str) : \A m \in MatchingCategories(str) : m <= n

\* the lookup table from category key to opportunity type
MappedTypes ==
    [testnet |-> "TestNet Rewards", nft |-> "NFT Mint", defi |-> "DeFi Farming",
     quest |-> "Quest Program", points |-> "Points Farming",
     fundraising |-> "Token Launch"]

\* C21: the local strategy's category is the last of the twelve keyword
\* sets, in iteration order, with a keyword in the corpus ("General" when
\* none has one), and its opportunity type is that category's entry in the
\* lookup table, "Early Access" for a matched category without an entry and
\* "General Information" when no category matched.
C21_LastMatchingCategoryWins ==
    LocalReturned =>
      IF MatchingCategories(fullText.v) = {}
      THEN /\ result.project_category = "General"
           /\ result.opportunity_type = "General Information"
      ELSE LET key == categoryKeywords[LastMatching(fullText.v)].name
           IN /\ result.project_category = CategoryTitle(key)
              /\ result.opportunity_type =
                    IF key \in DOMAIN MappedTypes THEN MappedTypes[key] ELSE "Early Access"

\* C21 witness: two category sets match, a set without a mapped type (ai_ml)
\* before one with a mapped type (testnet), and the later one is selected
C21_Witness ==
    /\ LocalReturned
    /\ Cardinality(MatchingCategories(fullText.v)) >= 2
    /\ categoryKeywords[LastMatching(fullText.v)].name = "testnet"
    /\ result.project_category = "Testnet"
    /\ result.opportunity_type = "TestNet Rewards"

\* the @handle and #tag tokens of a text from position at on, sigil stripped,
\* in the order in which they are written
RECURSIVE SigilTokens(_, _)
SigilTokens(text, at) ==
    IF at > Len(text) THEN << >>
    ELSE IF CharAt(text, at) \in {"@", "#"} /\ at < Len(text) /\ IsWordChar(CharAt(text, at + 1))
         THEN LET last == CHOOSE j \in (at + 1)..Len(text) :
                              /\ \A h \in (at + 1)..j : IsWordChar(CharAt(text, h))
                              /\ (j = Len(text) \/ ~IsWordChar(CharAt(text, j + 1)))
              IN <<SubSeq(text, at + 1, last)>> \o SigilTokens(text, last + 1)
         ELSE SigilTokens(text, at + 1)

\* C22 (as claimed): the local strategy's projects_mentioned are the
\* @handle and #tag tokens of the original-case corpus, sigil stripped,
\* those longer than 2 characters, in the order in which they are written
\* (handles and tags interleaved), the first 5, repeats kept.
C22_EntitiesInDocumentOrder ==
    LocalReturned =>
      result.projects_mentioned =
        Slice0(SelectSeq(SigilTokens(fullText.v, 1), LAMBDA token : Len(token) > 2), 5)

\* the entries that the rules of createEnhancedKeyPoints push
KeyPointRuleEntries ==
    {"point:new network launch", "point:defi liquidity", "point:nft minting",
     "point:ai early access", "point:gaming play-to-earn", "point:testnet activity",
     "point:airdrop mentioned", "point:early access", "point:farming or staking",
     "point:quest or task"}

\* the entries that the rules of createDetailedActionSteps push
StepRuleEntries ==
    {"step:use testnet", "step:register whitelist", "step:provide liquidity",
     "step:complete quests", "step:follow social channels", "step:connect wallet",
     "step:join community", "step:referral program"}

\* no rule has put an entry in the list
NoRuleFired(list, ruleEntries) == \A n \in 1..Len(list) : list[n] \notin ruleEntries

\* C23 (as claimed): when no rule fires, key_points_bangla and
\* action_steps_bangla each hold exactly one fixed fallback entry; both
\* lists are non-empty in every case.
C23_OneFallbackEntryEach ==
    LocalReturned =>
      /\ Len(result.key_points_bangla) > 0
      /\ Len(result.action_steps_bangla) > 0
      /\ (/\ NoRuleFired(result.key_points_bangla, KeyPointRuleEntries)
          /\ NoRuleFired(result.action_steps_bangla, StepRuleEntries))
         => /\ Len(result.key_points_bangla) = 1
            /\ Len(result.action_steps_bangla) = 1

\* C23 (amended): when no key-point rule fires, key_points_bangla is the one
\* fallback entry; action_steps_bangla is one fixed entry when there is no
\* opportunity, and otherwise the entries of the rules that fired, or three
\* default steps when none fired, followed by one closing step; both lists
\* are non-empty in every case.
C23_FallbackEntries ==
    LocalReturned =>
      /\ Len(result.key_points_bangla) > 0
      /\ Len(result.action_steps_bangla) > 0
      /\ NoRuleFired(result.key_points_bangla, KeyPointRuleEntries)
           => result.key_points_bangla = <<"point:general crypto information">>
      /\ ~result.has_airdrop_opportunity
           => result.action_steps_bangla = <<"step:none needed">>
      /\ result.has_airdrop_opportunity
           => LET steps == result.action_steps_bangla
              IN /\ steps[Len(steps)] = "step:verify roadmap and tokenomics"
                 /\ NoRuleFired(steps, StepRuleEntries)
                      => steps = <<"step:check official channels", "step:stay active",
                                   "step:follow updates",
                                   "step:verify roadmap and tokenomics">>
                 /\ ~NoRuleFired(steps, StepRuleEntries)
                      => \A n \in 1..(Len(steps) - 1) : steps[n] \in StepRuleEntries

\* C23 witness: a corpus with an opportunity for which no rule of either
\* list fires: one fallback key point, four action steps
C23_Witness ==
    /\ LocalReturned
    /\ result.has_airdrop_opportunity
    /\ NoRuleFired(result.key_points_bangla, KeyPointRuleEntries)
    /\ NoRuleFired(result.action_steps_bangla, StepRuleEntries)
    /\ Len(result.key_points_bangla) = 1
    /\ Len(result.action_steps_bangla) = 4

\* the phrase lists of the risk rule
HighRiskPhrases == {"guaranteed", "100%", "quick rich", "pump"}

LowRiskSignals == {"testnet", "beta", "official"}

\* a phrase of the set occurs in the lower-cased corpus
HasPhrase(str, phrases) == LET text == ToLowerCase(str) IN \E ph \in phrases : Includes(text, ph)

\* a direct-airdrop indicator occurs in the lower-cased corpus
HasIndicator(str) == Present(ToLowerCase(str), airdropKeywords) > 0

\* C24: the local strategy's risk level is high whenever the lower-cased
\* corpus holds a high-risk phrase; otherwise low exactly when an entity was
\* extracted and a low-risk signal or a direct-airdrop indicator is present;
\* otherwise medium. Without an extracted entity it is never low.
C24_RiskPrecedence ==
    LocalReturned =>
      LET entity == Len(result.projects_mentioned) > 0
          lowCase == entity /\ (HasPhrase(fullText.v, LowRiskSignals) \/ HasIndicator(fullText.v))
      IN /\ result.risk_level =
              IF HasPhrase(fullText.v, HighRiskPhrases) THEN "high"
              ELSE IF lowCase THEN "low" ELSE "medium"
         /\ ~entity => result.risk_level # "low"

\* C24 witness: a corpus with an entity, a low-risk signal and a high-risk
\* phrase is rated high
C24_Witness ==
    /\ LocalReturned
    /\ Len(result.projects_mentioned) > 0
    /\ HasPhrase(fullText.v, LowRiskSignals)
    /\ HasPhrase(fullText.v, HighRiskPhrases)
    /\ result.risk_level = "high"

\* the scenario corpus of the specification
ScenarioCorpus == "Join our testnet airdrop now, connect wallet and claim"

\* C25: without a credential, a corpus that contains "airdrop" and "now"
\* (in any letter case) gets a score of at least 7, has_airdrop_opportunity
\* true, confidence "high" and the immediate timeline; for the scenario
\* corpus the category is the test-network one.
C25_AirdropNowScenario ==
    (LocalReturned /\ ~apiKey) =>
      LET text == ToLowerCase(fullText.v)
      IN /\ (Includes(text, "airdrop") /\ Includes(text, "now"))
              => /\ result.airdrop_potential >= 7
                 /\ result.has_airdrop_opportunity
                 /\ result.confidence_level = "high"
                 /\ result.estimated_timeline = "timeline:now"
         /\ fullText.v = ScenarioCorpus => result.project_category = "Testnet"

\* C25 witness: the scenario corpus analyzed without a credential
C25_Witness ==
    /\ LocalReturned
    /\ ~apiKey
    /\ fullText.v = ScenarioCorpus
    /\ result.airdrop_potential >= 7
    /\ result.estimated_timeline = "timeline:now"
    /\ result.project_category = "Testnet"

\* ------------------------------------------------------------------------
\* Properties of the envelope's count
\* ------------------------------------------------------------------------

\* C26: in every envelope with success true, totalPosts is the number of
\* input URLs, the URLs whose extraction failed included, whatever number
\* of posts gave text to the corpus.
C26_TotalPostsCountsUrls ==
    (ReturnedObject /\ ret.success) =>
      /\ ret.totalPosts = Len(urls.items)
      /\ ret.totalPosts = Len(allPosts)
      /\ ret.totalPosts >= Cardinality(failed)

\* C26 witness: every extraction of a batch failed, so the corpus is empty
\* and the analysis is the constant of createEmptyAnalysis, and totalPosts
\* is positive
C26_Witness ==
    /\ ReturnedObject
    /\ ret.success
    /\ ret.totalPosts > 0
    /\ Cardinality(failed) = ret.totalPosts
    /\ ret.fullText = ""
    /\ ret.analysis = createEmptyAnalysis

\* ------------------------------------------------------------------------
\* Properties of the all-in-one launcher's shutdown
\* ------------------------------------------------------------------------

\* C27 (as claimed): in the all-in-one launcher, once isShuttingDown is set
\* no step spawns a child any more, a restart scheduled before the signal
\* included.
C27_NoStartAfterShutdown ==
    [][(launcher = "all-in-one" /\ isShuttingDown) => Len(children') = Len(children)]_vars

\* ------------------------------------------------------------------------
\* The users table (src/database/database.js): Database.initialize run by
\* the process of each service on one database file, and createUser as the
\* bot's middleware calls it; every statement is one step of SQLite
\* ------------------------------------------------------------------------

\* ctx.from of the updates the bot receives: two users, one of them also
\* after a change of username and first name
TelegramFrom ==
    { [id |-> "111", username |-> "alice", first_name |-> "Alice"],
      [id |-> "111", username |-> "alice_eth", first_name |-> "Alicia"],
      [id |-> "222", username |-> "bob", first_name |-> "Bob"] }

\* faulty variant of InsertUser: telegram_id without its UNIQUE constraint
InsertUserNoConstraint(table, telegramId, username, firstName, isAdmin) ==
    [ok |-> TRUE, error |-> "", lastID |-> Len(table) + 1,
     table |-> Append(table, [id |-> Len(table) + 1, telegram_id |-> telegramId,
                              username |-> username, first_name |-> firstName,
                              is_admin |-> isAdmin])]

\* INSERT INTO users on a table: id is AUTOINCREMENT, telegram_id is UNIQUE
InsertUser(table, telegramId, username, firstName, isAdmin) ==
    IF \E k \in 1..Len(table) : table[k].telegram_id = telegramId
    THEN [ok |-> FALSE, error |-> "SQLITE_CONSTRAINT: UNIQUE constraint failed: users.telegram_id",
          lastID |-> 0, table |-> table]
    ELSE [ok |-> TRUE, error |-> "", lastID |-> Len(table) + 1,
          table |-> Append(table, [id |-> Len(table) + 1, telegram_id |-> telegramId,
                                   username |-> username, first_name |-> firstName,
                                   is_admin |-> isAdmin])]

\* initialize of a service's Database: the file is opened and the CREATE
\* TABLE IF NOT EXISTS statements have run; the SELECT of
\* createDefaultAdmin is pending
InitializeStart(sv) ==
    /\ inits[sv].pc = "idle"
    /\ inits' = [inits EXCEPT ![sv].pc = "adminCheck"]
    /\ UNCHANGED <<users, userCalls>>
    /\ UNCHANGED <<analyzerVars, batchVars, frontVars, concurrentVars, launcherVars, webVars>>

\* SELECT id FROM users WHERE is_admin = 1 LIMIT 1 settles
AdminCheckSettles(sv) ==
    /\ inits[sv].pc = "adminCheck"
    /\ LET adminExists == \E k \in 1..Len(users) : users[k].is_admin
       IN inits' = [inits EXCEPT ![sv].pc = IF adminExists THEN "resolved" ELSE "adminInsert"]
    /\ UNCHANGED <<users, userCalls>>
    /\ UNCHANGED <<analyzerVars, batchVars, frontVars, concurrentVars, launcherVars, webVars>>

\* the INSERT of the default admin settles: initialize resolves, or rejects
\* with the error of the statement
AdminInsertSettles(sv) ==
    /\ inits[sv].pc = "adminInsert"
    /\ LET done == InsertUser(users, "admin", "admin", "Administrator", TRUE)
       IN /\ users' = done.table
          /\ inits' = [inits EXCEPT ![sv] =
                         [pc |-> IF done.ok THEN "resolved" ELSE "rejected",
                          error |-> done.error]]
    /\ UNCHANGED userCalls
    /\ UNCHANGED <<analyzerVars, batchVars, frontVars, concurrentVars, launcherVars, webVars>>

\* the middleware of the bot, launched after its initialize resolved, calls
\* createUser(telegramId, username, firstName): the INSERT is pending
CreateUserStart(c, from) ==
    /\ inits["bot"].pc = "resolved"
    /\ userCalls[c].pc \in {"idle", "returned"}
    /\ userCalls' = [userCalls EXCEPT ![c] = [IdleUserCall EXCEPT !.pc = "insert", !.from = from]]
    /\ UNCHANGED <<users, inits>>
    /\ UNCHANGED <<analyzerVars, batchVars, frontVars, concurrentVars, launcherVars, webVars>>

\* the INSERT of createUser settles: the SELECT by id follows, or the
\* SELECT by telegram_id in the catch block, or the error is thrown on
UserInsertSettles(c) ==
    /\ userCalls[c].pc = "insert"
    /\ LET from == userCalls[c].from
           done == InsertUser(users, from.id, from.username, from.first_name, FALSE)
       IN /\ users' = done.table
          /\ userCalls' = [userCalls EXCEPT
                             ![c].lastID = done.lastID,
                             ![c].pc = IF done.ok THEN "selectById"
                                       ELSE IF Includes(done.error, "UNIQUE constraint failed")
                                       THEN "selectByTelegramId"
                                       ELSE "threw"]
    /\ UNCHANGED inits
    /\ UNCHANGED <<analyzerVars, batchVars, frontVars, concurrentVars, launcherVars, webVars>>

\* the SELECT of createUser settles and createUser returns its row
UserSelectSettles(c) ==
    /\ userCalls[c].pc \in {"selectById", "selectByTelegramId"}
    /\ LET found == SelectSeq(users, LAMBDA row :
                        IF userCalls[c].pc = "selectById"
                        THEN row.id = userCalls[c].lastID
                        ELSE row.telegram_id = userCalls[c].from.id)
       IN userCalls' = [userCalls EXCEPT
                          ![c].pc = "returned",
                          ![c].ret = IF Len(found) = 0 THEN JSUndefined ELSE found[1]]
    /\ UNCHANGED <<users, inits>>
    /\ UNCHANGED <<analyzerVars, batchVars, frontVars, concurrentVars, launcherVars, webVars>>

NextStore ==
    \/ \E sv \in Services : InitializeStart(sv)
    \/ \E sv \in Services : AdminCheckSettles(sv)
    \/ \E sv \in Services : AdminInsertSettles(sv)
    \/ \E c \in Calls, from \in TelegramFrom : CreateUserStart(c, from)
    \/ \E c \in Calls : UserInsertSettles(c)
    \/ \E c \in Calls : UserSelectSettles(c)

SpecStore == Init /\ [][NextStore]_vars

\* C28: the users table never holds two rows with one telegram_id; no step
\* changes or removes a row; createUser never throws, and the row it
\* returns is the table's row for its telegram_id, which for a telegram_id
\* that was stored before is the row of the first call.
C28_OneRowPerTelegramId ==
    /\ [](\A k, m \in 1..Len(users) : users[k].telegram_id = users[m].telegram_id => k = m)
    /\ [][\A k \in 1..Len(users) : k <= Len(users') /\ users'[k] = users[k]]_vars
    /\ [](\A c \in Calls :
            /\ userCalls[c].pc # "threw"
            /\ userCalls[c].pc = "returned" =>
                 /\ userCalls[c].ret.telegram_id = userCalls[c].from.id
                 /\ \E k \in 1..Len(users) : users[k] = userCalls[c].ret)

\* C28 witness: createUser was called for a stored telegram_id with another
\* username and first name, and returned the stored row with the first
\* call's values
C28_Witness ==
    \E c \in Calls :
        /\ userCalls[c].pc = "returned"
        /\ userCalls[c].lastID = 0
        /\ userCalls[c].ret.telegram_id = userCalls[c].from.id
        /\ userCalls[c].ret.username # userCalls[c].from.username
        /\ userCalls[c].ret.first_name # userCalls[c].from.first_name

\* C29 (as claimed): when the initialize calls of both processes have
\* settled on a fresh database, the table holds exactly one admin row and
\* both calls resolved.
C29_OneAdminBothResolve ==
    (\A sv \in Services : inits[sv].pc \in {"resolved", "rejected"}) =>
      /\ Cardinality({ k \in 1..Len(users) : users[k].is_admin }) = 1
      /\ \A sv \in Services : inits[sv].pc = "resolved"

\* ------------------------------------------------------------------------
\* The web server's session and protected routes (src/unnamed/part_002):
\* one browser session, requests that overlap, every await one step
\* ------------------------------------------------------------------------

\* process.env as the web server reads it
WebEnvironments ==
    { [NODE_ENV |-> "production"], [WEB_ADMIN_PASSWORD |-> "s3cret"],
      [WEB_ADMIN_PASSWORD |-> ""] }

\* req.body.password of a POST /login
Passwords == {JSUndefined, JSString(""), JSString("admin123"), JSString("s3cret")}

\* the routes registered with requireAuth
ProtectedRoutes ==
    {"GET /dashboard", "GET /analysis/:id", "POST /api/analyze-twitter",
     "GET /api/analyses", "DELETE /api/analysis/:id"}

\* Date.now().toString() of the saves, also the ids a client asks for
AnalysisIds == {"1755943200001", "1755943200002"}

\* req.params.id or req.body.urls of a request to a route
RouteArgs(route) ==
    IF route \in {"GET /analysis/:id", "DELETE /api/analysis/:id"}
    THEN { JSString(id) : id \in AnalysisIds }
    ELSE IF route = "POST /api/analyze-twitter"
    THEN {JSUndefined, JSArray(<<"https://x.com/user/status/1">>),
          JSArray(<<"https://example.com/x.com">>)}
    ELSE {JSUndefined}

\* what scrapeTweets settles with, as far as the route looks at it
ScrapeOutcomes ==
    { [success |-> TRUE, error |-> ""],
      [success |-> FALSE,
       error |-> "Browser not available: Playwright browsers are not installed."],
      [success |-> FALSE, error |-> "URLs must be a non-empty array"] }

\* a request whose response has gone out
Responded(status) == [IdleRequest EXCEPT !.pc = "done", !.status = status]

\* faulty variant of requireAuth: every request goes on to the handler
requireAuthOpen(sess) == TRUE

\* requireAuth: next() when req.session.authenticated, else the redirect
requireAuth(sess) == sess.authenticated

\* the server is constructed and listens; of process.env the model keeps
\* what POST /login reads, process.env.WEB_ADMIN_PASSWORD || 'admin123'
ServerStart(env) ==
    /\ server = None
    /\ server' = [adminPassword |-> EnvOr(env, "WEB_ADMIN_PASSWORD", "admin123")]
    /\ UNCHANGED <<session, requests, analyses, authLog>>
    /\ UNCHANGED <<analyzerVars, batchVars, frontVars, concurrentVars, launcherVars, storeVars>>

\* POST /login
PostLogin(password) ==
    /\ server # None
    /\ LET correct == password = JSString(server.adminPassword)
       IN /\ session' = IF correct THEN [session EXCEPT !.authenticated = TRUE] ELSE session
          /\ authLog' = IF correct THEN "login" ELSE authLog
    /\ UNCHANGED <<server, requests, analyses>>
    /\ UNCHANGED <<analyzerVars, batchVars, frontVars, concurrentVars, launcherVars, storeVars>>

\* POST /logout: req.session.destroy(), the next request gets a new session
PostLogout ==
    /\ server # None
    /\ session' = [authenticated |-> FALSE]
    /\ authLog' = "logout"
    /\ UNCHANGED <<server, requests, analyses>>
    /\ UNCHANGED <<analyzerVars, batchVars, frontVars, concurrentVars, launcherVars, storeVars>>

\* a request to a protected route arrives: requireAuth, then the handler up
\* to its first await; the request takes the first slot that is free
Arrive(r, route, arg) ==
    /\ server # None
    /\ requests[r].pc \in {"idle", "done"}
    /\ \A q \in 1..(r - 1) : requests[q].pc \notin {"idle", "done"}
    /\ requests' = [requests EXCEPT ![r] =
         IF ~requireAuth(session) THEN Responded("redirect /login")
         ELSE IF route # "POST /api/analyze-twitter"
         THEN [pc |-> "reading", route |-> route, arg |-> arg, status |-> ""]
         ELSE IF arg = JSUndefined \/ arg.t # "array" THEN Responded("400")
         ELSE IF Len(Rejected(arg.v)) > 0 THEN Responded("400")
         ELSE [pc |-> "scraping", route |-> route, arg |-> arg, status |-> ""]]
    /\ UNCHANGED <<server, session, analyses, authLog>>
    /\ UNCHANGED <<analyzerVars, batchVars, frontVars, concurrentVars, launcherVars, storeVars>>

\* the SELECT of getRecentAnalyses or getAnalysis settles
ReadSettles(r) ==
    /\ requests[r].pc = "reading"
    /\ requests' = [requests EXCEPT ![r] =
         IF requests[r].route \in {"GET /dashboard", "GET /api/analyses"} THEN Responded("200")
         ELSE IF requests[r].arg.v \notin analyses THEN Responded("404")
         ELSE IF requests[r].route = "GET /analysis/:id" THEN Responded("200")
         ELSE [requests[r] EXCEPT !.pc = "deleting"]]
    /\ UNCHANGED <<server, session, analyses, authLog>>
    /\ UNCHANGED <<analyzerVars, batchVars, frontVars, concurrentVars, launcherVars, storeVars>>

\* DELETE FROM url_analyses WHERE id = ? settles
DeleteSettles(r) ==
    /\ requests[r].pc = "deleting"
    /\ analyses' = analyses \ {requests[r].arg.v}
    /\ requests' = [requests EXCEPT ![r] = Responded("200")]
    /\ UNCHANGED <<server, session, authLog>>
    /\ UNCHANGED <<analyzerVars, batchVars, frontVars, concurrentVars, launcherVars, storeVars>>

\* scrapeTweets settles: the analysis, or the record of an unavailable
\* browser, is to be saved; any other failure is answered with 500
ScrapeSettles(r, outcome) ==
    /\ requests[r].pc = "scraping"
    /\ requests' = [requests EXCEPT ![r] =
         IF outcome.success THEN [requests[r] EXCEPT !.pc = "saving", !.status = "200"]
         ELSE IF Includes(outcome.error, "Browser not available")
                   \/ Includes(outcome.error, "Playwright browsers are not installed")
         THEN [requests[r] EXCEPT !.pc = "saving", !.status = "503"]
         ELSE Responded("500")]
    /\ UNCHANGED <<server, session, analyses, authLog>>
    /\ UNCHANGED <<analyzerVars, batchVars, frontVars, concurrentVars, launcherVars, storeVars>>

\* the INSERT of saveAnalysis settles; id is the primary key, so the INSERT
\* of an id that is stored fails and the outer catch answers 500
SaveSettles(r, id) ==
    /\ requests[r].pc = "saving"
    /\ analyses' = analyses \cup {id}
    /\ requests' = [requests EXCEPT ![r] =
         IF id \in analyses THEN Responded("500") ELSE Responded(requests[r].status)]
    /\ UNCHANGED <<server, session, authLog>>
    /\ UNCHANGED <<analyzerVars, batchVars, frontVars, concurrentVars, launcherVars, storeVars>>

NextWeb ==
    \/ \E env \in WebEnvironments : ServerStart(env)
    \/ \E password \in Passwords : PostLogin(password)
    \/ PostLogout
    \/ \E r \in Requests, route \in ProtectedRoutes : \E arg \in RouteArgs(route) : Arrive(r, route, arg)
    \/ \E r \in Requests : ReadSettles(r)
    \/ \E r \in Requests : DeleteSettles(r)
    \/ \E r \in Requests, outcome \in ScrapeOutcomes : ScrapeSettles(r, outcome)
    \/ \E r \in Requests, id \in AnalysisIds : SaveSettles(r, id)

\* the routes read nothing of the analyzer's configuration: the server is
\* followed from the construction without OPENROUTER_API_KEY
InitWeb == Init /\ ~apiKey

SpecWeb == InitWeb /\ [][NextWeb]_vars

\* a step in which a handler reads or changes url_analyses
ReadsOrChanges ==
    \/ analyses' # analyses
    \/ \E r \in Requests : requests[r].pc \in {"reading", "saving", "deleting"}
                               /\ requests'[r] # requests[r]

\* a step in which a handler calls scrapeTweets
StartsScrape == \E r \in Requests : requests[r].pc # "scraping" /\ requests'[r].pc = "scraping"

\* a step in which a request to a protected route arrives
Arrives(r) == requests[r].pc \in {"idle", "done"} /\ requests'[r] # requests[r]

\* the session is authenticated exactly from a correct POST /login to the
\* next POST /logout
AuthenticatedIffLoggedIn == session.authenticated <=> authLog = "login"

\* C30 (as claimed): the session is authenticated exactly from a correct
\* POST /login to the next POST /logout, and only while it is authenticated
\* does a protected route start a scrape or read or change url_analyses; a
\* request that arrives otherwise is redirected to /login.
C30_ServedOnlyWhileAuthenticated ==
    /\ []AuthenticatedIffLoggedIn
    /\ [][(StartsScrape \/ ReadsOrChanges) => session.authenticated]_vars
    /\ [][\A r \in Requests :
            (Arrives(r) /\ ~session.authenticated)
              => requests'[r] = Responded("redirect /login")]_vars

\* C30 (amended): the session is authenticated exactly from a correct POST
\* /login to the next POST /logout; a request to a protected route that
\* arrives while it is not authenticated is redirected to /login and does
\* nothing else, one that arrives while it is authenticated is never
\* redirected; a scrape starts only in the arrival step of such a request,
\* and url_analyses is read or changed only by requests that were admitted,
\* possibly after a POST /logout that came while they were in flight.
C30_AdmittedOnlyWhileAuthenticated ==
    /\ []AuthenticatedIffLoggedIn
    /\ [][\A r \in Requests :
            Arrives(r) =>
              IF session.authenticated
              THEN requests'[r].status # "redirect /login"
              ELSE requests'[r] = Responded("redirect /login") /\ analyses' = analyses]_vars
    /\ [][StartsScrape => session.authenticated]_vars
    /\ [][ReadsOrChanges =>
            \E r \in Requests : /\ requests[r].pc \in {"reading", "saving", "deleting"}
                                 /\ requests'[r] # requests[r]]_vars
    /\ [](\A r \in Requests :
            requests[r].pc \in {"reading", "scraping", "saving", "deleting"}
              => authLog # "none")

\* C30 witness: a request admitted before POST /logout is still in flight
\* after it
C30_Witness ==
    /\ ~session.authenticated
    /\ authLog = "logout"
    /\ \E r \in Requests : requests[r].pc \in {"reading", "scraping", "saving", "deleting"}

=============================================================================
